---- MODULE Spec2Model ----
(***************************************************************************)
(* A model of the JSON-RPC layer of the execution client:                  *)
(*   crates/rpc/engine/mod.rs  the Engine API (new_payload_v3)             *)
(*   crates/rpc/rpc.rs         the envelope codec and the dispatcher       *)
(*   crates/rpc/eth/block.rs   the eth_* block and transaction handlers    *)
(*   cmd/ef_tests/types.rs     the conversion of wire transactions         *)
(*                                                                         *)
(* SpecEngine runs new_payload_v3 stage by stage on every payload of a     *)
(* bounded set. Spec runs whole requests through handle_http_request and   *)
(* handle_authrpc_request against a store. SpecReceipts runs               *)
(* get_block_receipts line by line beside a writer of receipts.            *)
(* SpecNormalize converts every wire transaction of a bounded set.         *)
(* SpecShutdown runs the two servers of start_api, the interrupt and       *)
(* try_join!; SpecShutdownLive adds the fairness of the runtime.           *)
(* SpecConcurrent handles requests on several connections at the same     *)
(* time, their handlers' calls interleaved.                                *)
(***************************************************************************)
EXTENDS Integers, Sequences, FiniteSets, TLC

\* ------------------------------------------------------------------------
\* Bounds
\* ------------------------------------------------------------------------

\* Transactions carried by one execution payload.
MaxTxs == 2

\* Length of the caller's expected_blob_versioned_hashes.
MaxExpected == 2

\* Block timestamps range over 0..MaxTimestamp.
MaxTimestamp == 1

\* Block hashes (H256) range over 0..NumHashes-1; 0 is H256::zero().
NumHashes == 3

\* u64::MAX, scaled to the integers of the model: a U256 value above it
\* does not fit a u64.
U64Max == 100000

\* The requests one listener serves at a time.
MaxInflight == 3

\* The connections whose requests are handled at the same time.
MaxConcurrent == 2

\* ------------------------------------------------------------------------
\* Option and Result
\* ------------------------------------------------------------------------

None == [some |-> FALSE]

Some(x) == [some |-> TRUE, val |-> x]

Ok(v) == [tag |-> "Ok", val |-> v]

Err(e) == [tag |-> "Err", err |-> e]

\* A panic (unimplemented!, unwrap on Err) unwinds through every caller.
Panic == [tag |-> "Panic"]

\* All sequences over S of length at most n.
SeqsUpTo(S, n) == UNION {[1..k -> S] : k \in 0..n}

\* ------------------------------------------------------------------------
\* Engine API: execution payloads (crates/rpc/engine/mod.rs)
\* ------------------------------------------------------------------------

Hashes == 0..(NumHashes - 1)

ZeroHash == 0

Timestamps == 0..MaxTimestamp

\* Parent beacon block roots handed in beside the payload.
BeaconRoots == {0, 1}

\* Versioned hashes of blobs.
BlobHashes == {1, 2}

\* The encoded transactions of a payload: bytes that do not decode, a
\* transaction without blobs, and blob transactions with their versioned
\* hashes.
EncodedTxs ==
    { [decodes |-> FALSE, blob |-> FALSE, blob_versioned_hashes |-> <<>>],
      [decodes |-> TRUE, blob |-> FALSE, blob_versioned_hashes |-> <<>>],
      [decodes |-> TRUE, blob |-> TRUE, blob_versioned_hashes |-> <<1>>],
      [decodes |-> TRUE, blob |-> TRUE, blob_versioned_hashes |-> <<2>>],
      [decodes |-> TRUE, blob |-> TRUE, blob_versioned_hashes |-> <<1, 2>>] }

\* ExecutionPayloadV3, reduced to the fields new_payload_v3 depends on.
ExecutionPayloads ==
    [block_hash : Hashes, timestamp : Timestamps,
     transactions : SeqsUpTo(EncodedTxs, MaxTxs)]

NewPayloadV3Requests ==
    [payload : ExecutionPayloads,
     expected_blob_versioned_hashes : SeqsUpTo(BlobHashes, MaxExpected),
     parent_beacon_block_root : BeaconRoots]

\* let cancun_time = 0;
cancun_time == 0

\* ExecutionPayloadV3::into_block: decodes every transaction and builds the
\* header (with the parent beacon block root) and the body; the first
\* transaction that does not decode fails the whole conversion.
into_block(payload, parent_beacon_block_root) ==
    IF \E i \in 1..Len(payload.transactions) : ~payload.transactions[i].decodes
    THEN Err("transaction decode error")
    ELSE Ok([header |-> [timestamp |-> payload.timestamp,
                         parent_beacon_block_root |-> parent_beacon_block_root,
                         transaction_count |-> Len(payload.transactions)],
             body |-> [transactions |->
                          [i \in 1..Len(payload.transactions) |->
                              [blob |-> payload.transactions[i].blob,
                               blob_versioned_hashes |->
                                   payload.transactions[i].blob_versioned_hashes]]]])

\* BlockHeader::compute_block_hash: a hash of the header's fields.
compute_block_hash(header) ==
    (header.timestamp * 2 + header.parent_beacon_block_root
        + header.transaction_count + 1) % NumHashes

\* Transaction::blob_versioned_hashes: a blob transaction's list, empty for
\* every other kind.
tx_blob_versioned_hashes(tx) ==
    IF tx.blob THEN tx.blob_versioned_hashes ELSE <<>>

RECURSIVE FlatMapBlobHashes(_)
\* block_body.transactions.iter().flat_map(|tx| tx.blob_versioned_hashes()).collect()
FlatMapBlobHashes(txs) ==
    IF txs = <<>> THEN <<>>
    ELSE tx_blob_versioned_hashes(Head(txs)) \o FlatMapBlobHashes(Tail(txs))

\* Mutant of DecodeFailureStatus: the decode failure reports no hash.
DecodeFailureStatus_NoHash(error) ==
    [status |-> "Invalid", latest_valid_hash |-> None,
     validation_error |-> Some(error)]

\* The verdict on a payload that does not decode.
DecodeFailureStatus(error) ==
    [status |-> "Invalid", latest_valid_hash |-> Some(ZeroHash),
     validation_error |-> Some(error)]

\* Mutant of ForkCheckFails: the comparison is strict.
ForkCheckFails_Strict(header) == header.timestamp < cancun_time

\* if block_header.timestamp <= cancun_time
ForkCheckFails(header) == header.timestamp <= cancun_time

\* if block_hash != actual_block_hash
BlockHashMismatch(block_hash, header) == block_hash # compute_block_hash(header)

\* Mutant of InvalidBlockHashStatus: the zero hash of the decode failure.
InvalidBlockHashStatus_ZeroHash ==
    [status |-> "Invalid", latest_valid_hash |-> Some(ZeroHash),
     validation_error |-> Some("Invalid block hash")]

InvalidBlockHashStatus ==
    [status |-> "Invalid", latest_valid_hash |-> None,
     validation_error |-> Some("Invalid block hash")]

\* Mutant of BlobHashesMismatch: only the lengths are compared.
BlobHashesMismatch_LengthOnly(expected, body) ==
    Len(expected) # Len(FlatMapBlobHashes(body.transactions))

\* if request.expected_blob_versioned_hashes != blob_versioned_hashes
BlobHashesMismatch(expected, body) ==
    expected # FlatMapBlobHashes(body.transactions)

\* Mutant of InvalidBlobHashesStatus: the zero hash of the decode failure.
InvalidBlobHashesStatus_ZeroHash ==
    [status |-> "Invalid", latest_valid_hash |-> Some(ZeroHash),
     validation_error |-> Some("Invalid blob_versioned_hashes")]

InvalidBlobHashesStatus ==
    [status |-> "Invalid", latest_valid_hash |-> None,
     validation_error |-> Some("Invalid blob_versioned_hashes")]

\* Mutant of ValidStatus: the verdict carries no hash.
ValidStatus_NoHash(block_hash) ==
    [status |-> "Valid", latest_valid_hash |-> None,
     validation_error |-> None]

ValidStatus(block_hash) ==
    [status |-> "Valid", latest_valid_hash |-> Some(block_hash),
     validation_error |-> None]

\* new_payload_v3 as one function: Result<PayloadStatus, RpcErr>.
new_payload_v3(request) ==
    LET block_hash == request.payload.block_hash
        decoded == into_block(request.payload, request.parent_beacon_block_root)
    IN  IF decoded.tag = "Err" THEN Ok(DecodeFailureStatus(decoded.err))
        ELSE IF ForkCheckFails(decoded.val.header) THEN Err("UnsuportedFork")
        ELSE IF BlockHashMismatch(block_hash, decoded.val.header)
             THEN Ok(InvalidBlockHashStatus)
        ELSE IF BlobHashesMismatch(request.expected_blob_versioned_hashes,
                                   decoded.val.body)
             THEN Ok(InvalidBlobHashesStatus)
        ELSE Ok(ValidStatus(block_hash))

\* ------------------------------------------------------------------------
\* JSON values (serde_json::Value) of request parameters and results
\* ------------------------------------------------------------------------

JNull == [ty |-> "null"]

\* A "0x.." string that fits a u64.
JHexNum(n) == [ty |-> "hexnum", n |-> n]

JString(s) == [ty |-> "string", s |-> s]

JBool(b) == [ty |-> "bool", b |-> b]

\* A JSON number.
JNumber(n) == [ty |-> "number", n |-> n]

\* A 32-byte "0x.." string.
JHash(h) == [ty |-> "hash", h |-> h]

JStringList(ss) == [ty |-> "stringlist", ss |-> ss]

JHashList(hs) == [ty |-> "hashlist", hs |-> hs]

\* An object with the fields of a GenericTransaction.
JTransaction(t) == [ty |-> "transaction", tx |-> t]

\* An object with the fields of an ExecutionPayloadV3.
JPayload(p) == [ty |-> "payload", payload |-> p]

\* A parameter of a handler whose parser is in eth/account.rs: well-shaped
\* for that parser or not.
JAccountParam(good) == [ty |-> "accountparam", good |-> good]

\* ------------------------------------------------------------------------
\* The store and the other collaborators
\* ------------------------------------------------------------------------

\* Transactions held by block bodies: a hash and a sender nonce.
TxA == [hash |-> 1, nonce |-> 0]

TxB == [hash |-> 2, nonce |-> 1]

\* A store: headers and bodies by block number (present numbers only),
\* block numbers by block hash, receipts by (block number, index) and
\* transaction locations by transaction hash.
MkStore(headers, bodies, numbers, receipts, locations) ==
    [headers |-> headers, bodies |-> bodies, block_numbers |-> numbers,
     receipts |-> receipts, transaction_locations |-> locations]

EmptyMap == [x \in {} |-> 0]

\* BlockHeader of block n, with the block hash n + 1.
HeaderOf(n) == [number |-> n, hash |-> n + 1]

BodyOf(txs) == [transactions |-> txs]

Stores ==
    { \* nothing stored
      MkStore(EmptyMap, EmptyMap, EmptyMap, {}, EmptyMap),
      \* block 1 with two transactions and both receipts
      MkStore(1 :> HeaderOf(1), 1 :> BodyOf(<<TxA, TxB>>), 2 :> 1,
              {<<1, 0>>, <<1, 1>>}, (1 :> <<1, 0>>) @@ (2 :> <<1, 1>>)),
      \* block 1 with two transactions, the second receipt not yet stored
      MkStore(1 :> HeaderOf(1), 1 :> BodyOf(<<TxA, TxB>>), 2 :> 1,
              {<<1, 0>>}, (1 :> <<1, 0>>) @@ (2 :> <<1, 1>>)),
      \* block 1 with its header and no body; its hash maps to it
      MkStore(1 :> HeaderOf(1), EmptyMap, 2 :> 1, {}, EmptyMap),
      \* block 1 with its body and no header
      MkStore(EmptyMap, 1 :> BodyOf(<<TxA>>), EmptyMap, {<<1, 0>>},
              1 :> <<1, 0>>),
      \* blocks 0 and 1; a location that points past block 1's body
      MkStore((0 :> HeaderOf(0)) @@ (1 :> HeaderOf(1)),
              (0 :> BodyOf(<<>>)) @@ (1 :> BodyOf(<<TxA>>)),
              (1 :> 0) @@ (2 :> 1), {<<1, 0>>, <<1, 1>>},
              (1 :> <<1, 0>>) @@ (2 :> <<1, 1>>)) }

\* Outcomes of ethereum_rust_evm::create_access_list.
EvmOutcomes ==
    { [kind |-> "Success", gas_used |-> 21000, access_list |-> <<>>,
       reason |-> ""],
      [kind |-> "Success", gas_used |-> 51772,
       access_list |-> <<[address |-> 7, storage_keys |-> <<0, 5>>]>>,
       reason |-> ""],
      [kind |-> "Revert", gas_used |-> 30000,
       access_list |-> <<[address |-> 7, storage_keys |-> <<0>>]>>,
       reason |-> ""],
      [kind |-> "Halt", gas_used |-> 60000, access_list |-> <<>>,
       reason |-> "OutOfGas"],
      [kind |-> "Fault", gas_used |-> 0, access_list |-> <<>>,
       reason |-> ""] }

\* What the collaborators do during one request: the storage reads that
\* fail, the EVM's outcome, and whether a handler of eth/account.rs,
\* eth/client.rs or admin.rs fails.
Env(failing, evm, other) == [failing |-> failing, evm |-> evm, other |-> other]

QuietEvm == [kind |-> "Success", gas_used |-> 21000, access_list |-> <<>>,
             reason |-> ""]

QuietEnv == Env({}, QuietEvm, "Ok")

\* Store::get_block_header
get_block_header(store, env, number) ==
    IF "header" \in env.failing THEN Err("StoreError")
    ELSE IF number \in DOMAIN store.headers
         THEN Ok(Some(store.headers[number])) ELSE Ok(None)

\* Store::get_block_body
get_block_body(store, env, number) ==
    IF "body" \in env.failing THEN Err("StoreError")
    ELSE IF number \in DOMAIN store.bodies
         THEN Ok(Some(store.bodies[number])) ELSE Ok(None)

\* Store::get_block_number
get_block_number(store, env, hash) ==
    IF "number" \in env.failing THEN Err("StoreError")
    ELSE IF hash \in DOMAIN store.block_numbers
         THEN Ok(Some(store.block_numbers[hash])) ELSE Ok(None)

\* Store::get_receipt; the receipt of (number, index) is named by its key.
get_receipt(store, env, number, index) ==
    IF "receipt" \in env.failing THEN Err("StoreError")
    ELSE IF <<number, index>> \in store.receipts
         THEN Ok(Some([block_number |-> number, index |-> index]))
         ELSE Ok(None)

\* Store::get_transaction_location
get_transaction_location(store, env, hash) ==
    IF "location" \in env.failing THEN Err("StoreError")
    ELSE IF hash \in DOMAIN store.transaction_locations
         THEN Ok(Some(store.transaction_locations[hash])) ELSE Ok(None)

\* Mutant of TransactionsGet: the index counts from 1.
TransactionsGet_FromOne(transactions, index) ==
    IF index >= 1 /\ index <= Len(transactions)
    THEN Some(transactions[index]) ELSE None

\* Vec::get(index) on a block's transactions (index from 0).
TransactionsGet(transactions, index) ==
    IF index >= 0 /\ index < Len(transactions)
    THEN Some(transactions[index + 1]) ELSE None

\* Store::get_transaction_by_hash: the transaction at the stored location.
store_get_transaction_by_hash(store, env, hash) ==
    LET location == get_transaction_location(store, env, hash)
    IN  IF location.tag = "Err" THEN location
        ELSE IF ~location.val.some THEN Ok(None)
        ELSE LET body == get_block_body(store, env, location.val.val[1])
             IN  IF body.tag = "Err" THEN body
                 ELSE IF ~body.val.some THEN Ok(None)
                 ELSE Ok(TransactionsGet(body.val.val.transactions,
                                         location.val.val[2]))

\* ------------------------------------------------------------------------
\* Request parsing (crates/rpc/eth/block.rs, crates/rpc/rpc.rs)
\* ------------------------------------------------------------------------

\* BlockTag, in its camelCase wire form.
BlockTags == {"earliest", "finalized", "safe", "latest", "pending"}

Number(n) == [variant |-> "Number", number |-> n]

Tag(t) == [variant |-> "Tag", tag |-> t]

\* BlockIdentifier::default()
DefaultBlockIdentifier == Tag("latest")

\* The untagged BlockIdentifier: a hex number, else a tag, else an error.
ParseBlockIdentifier(v) ==
    IF v.ty = "hexnum" THEN Some(Number(v.n))
    ELSE IF v.ty = "string" /\ v.s \in BlockTags THEN Some(Tag(v.s))
    ELSE None

ParseBool(v) == IF v.ty = "bool" THEN Some(v.b) ELSE None

\* usize from a JSON number.
ParseUsize(v) == IF v.ty = "number" /\ v.n >= 0 THEN Some(v.n) ELSE None

\* H256 / BlockHash from a 32-byte hex string.
ParseH256(v) == IF v.ty = "hash" THEN Some(v.h) ELSE None

ParseGenericTransaction(v) ==
    IF v.ty = "transaction" THEN Some(v.tx) ELSE None

\* GetBlockByNumberRequest::parse
GetBlockByNumberRequest_parse(params) ==
    IF ~params.some THEN None
    ELSE IF Len(params.val) # 2 THEN None
    ELSE LET block == ParseBlockIdentifier(params.val[1])
             hydrated == ParseBool(params.val[2])
         IN  IF ~block.some THEN None
             ELSE IF ~hydrated.some THEN None
             ELSE Some([block |-> block.val, hydrated |-> hydrated.val])

\* GetBlockByHashRequest::parse
GetBlockByHashRequest_parse(params) ==
    IF ~params.some THEN None
    ELSE IF Len(params.val) # 2 THEN None
    ELSE LET block == ParseH256(params.val[1])
             hydrated == ParseBool(params.val[2])
         IN  IF ~block.some THEN None
             ELSE IF ~hydrated.some THEN None
             ELSE Some([block |-> block.val, hydrated |-> hydrated.val])

\* GetBlockTransactionCountByNumberRequest::parse
GetBlockTransactionCountByNumberRequest_parse(params) ==
    IF ~params.some THEN None
    ELSE IF Len(params.val) # 1 THEN None
    ELSE LET block == ParseBlockIdentifier(params.val[1])
         IN  IF ~block.some THEN None ELSE Some([block |-> block.val])

\* GetTransactionByBlockNumberAndIndexRequest::parse
GetTransactionByBlockNumberAndIndexRequest_parse(params) ==
    IF ~params.some THEN None
    ELSE IF Len(params.val) # 2 THEN None
    ELSE LET block == ParseBlockIdentifier(params.val[1])
             index == ParseUsize(params.val[2])
         IN  IF ~block.some THEN None
             ELSE IF ~index.some THEN None
             ELSE Some([block |-> block.val, transaction_index |-> index.val])

\* GetTransactionByBlockHashAndIndexRequest::parse
GetTransactionByBlockHashAndIndexRequest_parse(params) ==
    IF ~params.some THEN None
    ELSE IF Len(params.val) # 2 THEN None
    ELSE LET block == ParseH256(params.val[1])
             index == ParseUsize(params.val[2])
         IN  IF ~block.some THEN None
             ELSE IF ~index.some THEN None
             ELSE Some([block |-> block.val, transaction_index |-> index.val])

\* GetBlockReceiptsRequest::parse
GetBlockReceiptsRequest_parse(params) ==
    IF ~params.some THEN None
    ELSE IF Len(params.val) # 1 THEN None
    ELSE LET block == ParseBlockIdentifier(params.val[1])
         IN  IF ~block.some THEN None ELSE Some([block |-> block.val])

\* GetTransactionByHashRequest::parse
GetTransactionByHashRequest_parse(params) ==
    IF ~params.some THEN None
    ELSE IF Len(params.val) # 1 THEN None
    ELSE LET hash == ParseH256(params.val[1])
         IN  IF ~hash.some THEN None
             ELSE Some([transaction_hash |-> hash.val])

\* GetTransactionReceiptRequest::parse
GetTransactionReceiptRequest_parse(params) ==
    IF ~params.some THEN None
    ELSE IF Len(params.val) # 1 THEN None
    ELSE LET hash == ParseH256(params.val[1])
         IN  IF ~hash.some THEN None
             ELSE Some([transaction_hash |-> hash.val])

\* Mutant of CreateAccessListRequest_parse: the block is required.
CreateAccessListRequest_parse_BlockRequired(params) ==
    IF ~params.some THEN None
    ELSE IF Len(params.val) # 2 THEN None
    ELSE LET block == ParseBlockIdentifier(params.val[2])
             transaction == ParseGenericTransaction(params.val[1])
         IN  IF ~block.some \/ ~transaction.some THEN None
             ELSE Some([transaction |-> transaction.val, block |-> block])

\* CreateAccessListRequest::parse
CreateAccessListRequest_parse(params) ==
    IF ~params.some THEN None
    ELSE IF Len(params.val) > 2 THEN None
    ELSE LET given == Len(params.val) >= 2
             block == IF given THEN ParseBlockIdentifier(params.val[2])
                      ELSE None
         IN  IF given /\ ~block.some THEN None
             ELSE IF Len(params.val) = 0 THEN None
             ELSE LET transaction == ParseGenericTransaction(params.val[1])
                  IN  IF ~transaction.some THEN None
                      ELSE Some([transaction |-> transaction.val,
                                 block |-> block])

\* parse_new_payload_v3_request
parse_new_payload_v3_request(params) ==
    IF Len(params) # 3 THEN Err("BadParams")
    ELSE IF params[1].ty # "payload" THEN Err("BadParams")
    ELSE IF params[2].ty # "hashlist" THEN Err("BadParams")
    ELSE IF params[3].ty # "hash" THEN Err("BadParams")
    ELSE Ok([payload |-> params[1].payload,
             expected_blob_versioned_hashes |-> params[2].hs,
             parent_beacon_block_root |-> params[3].h])

\* The parsers of eth/account.rs: the arity of the method and the shape of
\* every parameter.
ParseAccountRequest(params, arity) ==
    IF ~params.some THEN None
    ELSE IF Len(params.val) # arity THEN None
    ELSE IF \E i \in 1..arity :
                ~(params.val[i].ty = "accountparam" /\ params.val[i].good)
         THEN None
    ELSE Some([params |-> params.val])

\* ------------------------------------------------------------------------
\* Wire views of results
\* ------------------------------------------------------------------------

HexDigits ==
    <<"0", "1", "2", "3", "4", "5", "6", "7", "8", "9",
      "a", "b", "c", "d", "e", "f">>

RECURSIVE HexDigitsOf(_)
\* The hexadecimal digits of n, most significant first.
HexDigitsOf(n) ==
    IF n < 16 THEN <<HexDigits[n + 1]>>
    ELSE Append(HexDigitsOf(n \div 16), HexDigits[(n % 16) + 1])

\* format!("{:#x}", n)
FormatHex(n) == <<"0", "x">> \o HexDigitsOf(n)

JHexString(digits) == [ty |-> "hexstring", digits |-> digits]

\* BlockSerializable::from_block: full transactions when hydrated, their
\* hashes otherwise.
BlockSerializable_from_block(header, body, hydrated) ==
    [ty |-> "block", header |-> header, hydrated |-> hydrated,
     transactions |->
        IF hydrated THEN body.transactions
        ELSE [i \in 1..Len(body.transactions) |->
                 [hash |-> body.transactions[i].hash]]]

JTransactionView(tx) == [ty |-> "transactionview", tx |-> tx]

\* BlockHeader::receipt_info
header_receipt_info(header) ==
    [block_number |-> header.number, block_hash |-> header.hash]

\* Transaction::receipt_info(index)
tx_receipt_info(tx, index) ==
    [transaction_hash |-> tx.hash, transaction_index |-> index,
     nonce |-> tx.nonce]

ReceiptWithTxAndBlockInfo(receipt, tx_info, block_info) ==
    [receipt |-> receipt, tx_info |-> tx_info, block_info |-> block_info]

JReceipts(receipts) == [ty |-> "receipts", receipts |-> receipts]

JReceipt(receipt) == [ty |-> "receipt", receipt |-> receipt]

\* AccessListResult; error is skipped when None.
AccessListResult(access_list, error, gas_used) ==
    [ty |-> "accesslistresult", access_list |-> access_list,
     error |-> error, gas_used |-> FormatHex(gas_used)]

\* serde_json::to_value(PayloadStatus)
JPayloadStatus(status) == [ty |-> "payloadstatus", status |-> status]

\* ------------------------------------------------------------------------
\* Handlers (crates/rpc/eth/block.rs)
\* ------------------------------------------------------------------------

\* Mutant of HeaderAndBody: a missing header or body is reported as a
\* storage error.
HeaderAndBody_MissingIsError(store, env, block_number) ==
    LET header == get_block_header(store, env, block_number)
        body == get_block_body(store, env, block_number)
    IN  IF header.tag = "Ok" /\ body.tag = "Ok"
           /\ header.val.some /\ body.val.some
        THEN Ok(Some([header |-> header.val.val, body |-> body.val.val]))
        ELSE Err("Internal")

\* Mutant of HeaderAndBody: a header or a body that is not found ends the
\* match before the other read's error is looked at.
HeaderAndBody_NotFoundWins(store, env, block_number) ==
    LET header == get_block_header(store, env, block_number)
        body == get_block_body(store, env, block_number)
    IN  IF (header.tag = "Ok" /\ ~header.val.some)
           \/ (body.tag = "Ok" /\ ~body.val.some)
        THEN Ok(None)
        ELSE IF header.tag = "Ok" /\ body.tag = "Ok"
        THEN Ok(Some([header |-> header.val.val, body |-> body.val.val]))
        ELSE Err("Internal")

\* The header and the body are both read, then matched together.
HeaderAndBody(store, env, block_number) ==
    LET header == get_block_header(store, env, block_number)
        body == get_block_body(store, env, block_number)
    IN  IF header.tag = "Ok" /\ body.tag = "Ok"
        THEN IF header.val.some /\ body.val.some
             THEN Ok(Some([header |-> header.val.val, body |-> body.val.val]))
             ELSE Ok(None)
        ELSE Err("Internal")

\* Mutant of get_block_by_number: a tag resolves to block 0.
get_block_by_number_TagIsZero(request, store, env) ==
    LET block == HeaderAndBody(store, env,
                     IF request.block.variant = "Tag" THEN 0
                     ELSE request.block.number)
    IN  IF block.tag = "Err" THEN block
        ELSE IF ~block.val.some THEN Ok(JNull)
        ELSE Ok(BlockSerializable_from_block(block.val.val.header,
                                           block.val.val.body,
                                           request.hydrated))

\* get_block_by_number
get_block_by_number(request, store, env) ==
    IF request.block.variant = "Tag" THEN Panic
    ELSE LET block == HeaderAndBody(store, env, request.block.number)
         IN  IF block.tag = "Err" THEN block
             ELSE IF ~block.val.some THEN Ok(JNull)
             ELSE Ok(BlockSerializable_from_block(block.val.val.header,
                                                block.val.val.body,
                                                request.hydrated))

\* Mutant of get_block_by_hash: the header and the body are read at the
\* hash, not at the number the hash resolves to.
get_block_by_hash_HashAsNumber(request, store, env) ==
    LET number == get_block_number(store, env, request.block)
    IN  IF number.tag = "Err" THEN Err("Internal")
        ELSE IF ~number.val.some THEN Ok(JNull)
        ELSE LET block == HeaderAndBody(store, env, request.block)
             IN  IF block.tag = "Err" THEN block
                 ELSE IF ~block.val.some THEN Ok(JNull)
                 ELSE Ok(BlockSerializable_from_block(block.val.val.header,
                                                    block.val.val.body,
                                                    request.hydrated))

\* get_block_by_hash
get_block_by_hash(request, store, env) ==
    LET number == get_block_number(store, env, request.block)
    IN  IF number.tag = "Err" THEN Err("Internal")
        ELSE IF ~number.val.some THEN Ok(JNull)
        ELSE LET block == HeaderAndBody(store, env, number.val.val)
             IN  IF block.tag = "Err" THEN block
                 ELSE IF ~block.val.some THEN Ok(JNull)
                 ELSE Ok(BlockSerializable_from_block(block.val.val.header,
                                                    block.val.val.body,
                                                    request.hydrated))

\* Mutant of get_block_transaction_count_by_number: Number(n) resolves to
\* the block after n.
get_block_transaction_count_by_number_NextBlock(request, store, env) ==
    IF request.block.variant = "Tag" THEN Panic
    ELSE LET body == get_block_body(store, env, request.block.number + 1)
         IN  IF body.tag = "Err" THEN Err("Internal")
             ELSE IF ~body.val.some THEN Ok(JNull)
             ELSE Ok(JHexString(FormatHex(Len(body.val.val.transactions))))

\* get_block_transaction_count_by_number
get_block_transaction_count_by_number(request, store, env) ==
    IF request.block.variant = "Tag" THEN Panic
    ELSE LET body == get_block_body(store, env, request.block.number)
         IN  IF body.tag = "Err" THEN Err("Internal")
             ELSE IF ~body.val.some THEN Ok(JNull)
             ELSE Ok(JHexString(FormatHex(Len(body.val.val.transactions))))

\* The tail shared by the two transaction-by-index handlers: the body, then
\* the bounds-checked index.
TransactionAt(store, env, block_number, transaction_index) ==
    LET body == get_block_body(store, env, block_number)
    IN  IF body.tag = "Err" THEN Err("Internal")
        ELSE IF ~body.val.some THEN Ok(JNull)
        ELSE LET tx == TransactionsGet(body.val.val.transactions,
                                       transaction_index)
             IN  IF ~tx.some THEN Ok(JNull)
                 ELSE Ok(JTransactionView(tx.val))

\* get_transaction_by_block_number_and_index
get_transaction_by_block_number_and_index(request, store, env) ==
    IF request.block.variant = "Tag" THEN Panic
    ELSE TransactionAt(store, env, request.block.number,
                       request.transaction_index)

\* get_transaction_by_block_hash_and_index
get_transaction_by_block_hash_and_index(request, store, env) ==
    LET number == get_block_number(store, env, request.block)
    IN  IF number.tag = "Err" THEN Err("Internal")
        ELSE IF ~number.val.some THEN Ok(JNull)
        ELSE TransactionAt(store, env, number.val.val,
                           request.transaction_index)

RECURSIVE CollectReceipts(_, _, _, _, _, _, _)
\* The loop of get_block_receipts from transaction `index` on, `receipts`
\* being those pushed so far.
CollectReceipts(store, env, block_number, header, body, index, receipts) ==
    IF index >= Len(body.transactions) THEN Ok(JReceipts(receipts))
    ELSE LET receipt == get_receipt(store, env, block_number, index)
         IN  IF receipt.tag = "Err" THEN Err("Internal")
             ELSE IF ~receipt.val.some THEN Ok(JNull)
             ELSE CollectReceipts(store, env, block_number, header, body,
                     index + 1,
                     Append(receipts,
                            ReceiptWithTxAndBlockInfo(
                                receipt.val.val,
                                tx_receipt_info(body.transactions[index + 1],
                                              index),
                                header_receipt_info(header))))

\* get_block_receipts
get_block_receipts(request, store, env) ==
    IF request.block.variant = "Tag" THEN Panic
    ELSE LET block == HeaderAndBody(store, env, request.block.number)
         IN  IF block.tag = "Err" THEN block
             ELSE IF ~block.val.some THEN Ok(JNull)
             ELSE CollectReceipts(store, env, request.block.number,
                                  block.val.val.header, block.val.val.body,
                                  0, <<>>)

\* get_transaction_by_hash
get_transaction_by_hash(request, store, env) ==
    LET transaction == store_get_transaction_by_hash(store, env,
                                              request.transaction_hash)
    IN  IF transaction.tag = "Err" THEN Err("Internal")
        ELSE IF ~transaction.val.some THEN Ok(JNull)
        ELSE Ok(JTransactionView(transaction.val.val))

\* Mutant of get_transaction_receipt: the transaction context is built for
\* index 0 whatever the location says.
get_transaction_receipt_IndexZero(request, store, env) ==
    LET location == get_transaction_location(store, env,
                                           request.transaction_hash)
    IN  IF location.tag = "Err" THEN Err("Internal")
        ELSE IF ~location.val.some THEN Ok(JNull)
        ELSE
        LET block_number == location.val.val[1]
            index == location.val.val[2]
            block_header == get_block_header(store, env, block_number)
        IN  IF block_header.tag = "Err" THEN Err("Internal")
            ELSE IF ~block_header.val.some THEN Ok(JNull)
            ELSE
            LET block_body == get_block_body(store, env, block_number)
            IN  IF block_body.tag = "Err" THEN Err("Internal")
                ELSE IF ~block_body.val.some THEN Ok(JNull)
                ELSE
                LET receipt == get_receipt(store, env, block_number, index)
                IN  IF receipt.tag = "Err" THEN Err("Internal")
                    ELSE IF ~receipt.val.some THEN Ok(JNull)
                    ELSE
                    LET tx == TransactionsGet(
                                  block_body.val.val.transactions, index)
                    IN  IF ~tx.some THEN Ok(JNull)
                        ELSE Ok(JReceipt(ReceiptWithTxAndBlockInfo(
                                   receipt.val.val,
                                   tx_receipt_info(tx.val, 0),
                                   header_receipt_info(block_header.val.val))))

\* get_transaction_receipt
get_transaction_receipt(request, store, env) ==
    LET location == get_transaction_location(store, env,
                                           request.transaction_hash)
    IN  IF location.tag = "Err" THEN Err("Internal")
        ELSE IF ~location.val.some THEN Ok(JNull)
        ELSE
        LET block_number == location.val.val[1]
            index == location.val.val[2]
            block_header == get_block_header(store, env, block_number)
        IN  IF block_header.tag = "Err" THEN Err("Internal")
            ELSE IF ~block_header.val.some THEN Ok(JNull)
            ELSE
            LET block_body == get_block_body(store, env, block_number)
            IN  IF block_body.tag = "Err" THEN Err("Internal")
                ELSE IF ~block_body.val.some THEN Ok(JNull)
                ELSE
                LET receipt == get_receipt(store, env, block_number, index)
                IN  IF receipt.tag = "Err" THEN Err("Internal")
                    ELSE IF ~receipt.val.some THEN Ok(JNull)
                    ELSE
                    LET tx == TransactionsGet(
                                  block_body.val.val.transactions, index)
                    IN  IF ~tx.some THEN Ok(JNull)
                        ELSE Ok(JReceipt(ReceiptWithTxAndBlockInfo(
                                   receipt.val.val,
                                   tx_receipt_info(tx.val, index),
                                   header_receipt_info(block_header.val.val))))

\* Mutant of create_access_list: a reverted execution is reported like a
\* successful one.
create_access_list_RevertHidden(request, store, env) ==
    LET block == IF request.block.some THEN request.block.val
                 ELSE DefaultBlockIdentifier
    IN  IF block.variant = "Tag" THEN Panic
        ELSE LET header == get_block_header(store, env, block.number)
             IN  IF header.tag = "Err" THEN Err("Internal")
                 ELSE IF ~header.val.some THEN Ok(JNull)
                 ELSE IF env.evm.kind = "Fault" THEN Err("Vm")
                 ELSE IF env.evm.kind \in {"Success", "Revert"}
                      THEN Ok(AccessListResult(env.evm.access_list, None,
                                               env.evm.gas_used))
                 ELSE Ok(AccessListResult(env.evm.access_list,
                                          Some(env.evm.reason),
                                          env.evm.gas_used))

\* create_access_list
create_access_list(request, store, env) ==
    LET block == IF request.block.some THEN request.block.val
                 ELSE DefaultBlockIdentifier
    IN  IF block.variant = "Tag" THEN Panic
        ELSE LET header == get_block_header(store, env, block.number)
             IN  IF header.tag = "Err" THEN Err("Internal")
                 ELSE IF ~header.val.some THEN Ok(JNull)
                 ELSE IF env.evm.kind = "Fault" THEN Err("Vm")
                 ELSE IF env.evm.kind = "Success"
                      THEN Ok(AccessListResult(env.evm.access_list, None,
                                               env.evm.gas_used))
                 ELSE IF env.evm.kind = "Revert"
                      THEN Ok(AccessListResult(env.evm.access_list,
                                               Some("Transaction Reverted"),
                                               env.evm.gas_used))
                 ELSE Ok(AccessListResult(env.evm.access_list,
                                          Some(env.evm.reason),
                                          env.evm.gas_used))

\* ------------------------------------------------------------------------
\* The calls each handler makes on its collaborators, in order
\* ------------------------------------------------------------------------

ReadHeader(n) == [op |-> "get_block_header", number |-> n]

ReadBody(n) == [op |-> "get_block_body", number |-> n]

ReadNumber(h) == [op |-> "get_block_number", hash |-> h]

ReadReceipt(n, i) == [op |-> "get_receipt", number |-> n, index |-> i]

ReadLocation(h) == [op |-> "get_transaction_location", hash |-> h]

\* ethereum_rust_evm::create_access_list
EvmCall == [op |-> "evm_create_access_list"]

\* The storage reads among the calls.
StorageOps ==
    {"get_block_header", "get_block_body", "get_block_number",
     "get_receipt", "get_transaction_location"}

\* Mutant of StoreEffect: the run of the EVM commits its state and drops
\* the stored receipts.
StoreEffect_EvmCommits(store, call) ==
    IF call.op = "evm_create_access_list"
    THEN [store EXCEPT !.receipts = {}]
    ELSE store

\* The store after one call of a handler: the getters take &self and
\* return a copy of what is stored, and the EVM runs on an evm_state
\* built for the one call, which is dropped with the call.
StoreEffect(store, call) == store

\* The store after the calls of a handler, in order.
RECURSIVE StoreAfter(_, _)
StoreAfter(store, calls) ==
    IF calls = <<>> THEN store
    ELSE StoreAfter(StoreEffect(store, Head(calls)), Tail(calls))

\* get_block_by_number: the header and the body are read one after the
\* other, whatever the first read returned.
get_block_by_number_calls(request, store, env) ==
    IF request.block.variant = "Tag" THEN <<>>
    ELSE <<ReadHeader(request.block.number), ReadBody(request.block.number)>>

\* get_block_by_hash
get_block_by_hash_calls(request, store, env) ==
    LET number == get_block_number(store, env, request.block)
    IN  <<ReadNumber(request.block)>> \o
        IF number.tag = "Ok" /\ number.val.some
        THEN <<ReadHeader(number.val.val), ReadBody(number.val.val)>>
        ELSE <<>>

\* get_block_transaction_count_by_number
get_block_transaction_count_by_number_calls(request, store, env) ==
    IF request.block.variant = "Tag" THEN <<>>
    ELSE <<ReadBody(request.block.number)>>

\* get_transaction_by_block_number_and_index
get_transaction_by_block_number_and_index_calls(request, store, env) ==
    IF request.block.variant = "Tag" THEN <<>>
    ELSE <<ReadBody(request.block.number)>>

\* get_transaction_by_block_hash_and_index
get_transaction_by_block_hash_and_index_calls(request, store, env) ==
    LET number == get_block_number(store, env, request.block)
    IN  <<ReadNumber(request.block)>> \o
        IF number.tag = "Ok" /\ number.val.some
        THEN <<ReadBody(number.val.val)>>
        ELSE <<>>

RECURSIVE CollectReceiptsCalls(_, _, _, _, _)
\* The receipt reads of the loop of get_block_receipts from transaction
\* `index` on: the loop stops at the first read that is not Ok(Some).
CollectReceiptsCalls(store, env, block_number, body, index) ==
    IF index >= Len(body.transactions) THEN <<>>
    ELSE LET receipt == get_receipt(store, env, block_number, index)
         IN  <<ReadReceipt(block_number, index)>> \o
             IF receipt.tag = "Ok" /\ receipt.val.some
             THEN CollectReceiptsCalls(store, env, block_number, body,
                                       index + 1)
             ELSE <<>>

\* get_block_receipts
get_block_receipts_calls(request, store, env) ==
    IF request.block.variant = "Tag" THEN <<>>
    ELSE LET n == request.block.number
             block == HeaderAndBody(store, env, n)
         IN  <<ReadHeader(n), ReadBody(n)>> \o
             IF block.tag = "Ok" /\ block.val.some
             THEN CollectReceiptsCalls(store, env, n, block.val.val.body, 0)
             ELSE <<>>

\* Store::get_transaction_by_hash: the location, then the body it names.
store_get_transaction_by_hash_calls(store, env, hash) ==
    LET location == get_transaction_location(store, env, hash)
    IN  <<ReadLocation(hash)>> \o
        IF location.tag = "Ok" /\ location.val.some
        THEN <<ReadBody(location.val.val[1])>>
        ELSE <<>>

\* get_transaction_by_hash
get_transaction_by_hash_calls(request, store, env) ==
    store_get_transaction_by_hash_calls(store, env, request.transaction_hash)

\* get_transaction_receipt: four reads, each made only when the one before
\* it returned Ok(Some).
get_transaction_receipt_calls(request, store, env) ==
    LET hash == request.transaction_hash
        location == get_transaction_location(store, env, hash)
    IN  <<ReadLocation(hash)>> \o
        IF ~(location.tag = "Ok" /\ location.val.some) THEN <<>>
        ELSE
        LET block_number == location.val.val[1]
            index == location.val.val[2]
            block_header == get_block_header(store, env, block_number)
        IN  <<ReadHeader(block_number)>> \o
            IF ~(block_header.tag = "Ok" /\ block_header.val.some) THEN <<>>
            ELSE
            LET block_body == get_block_body(store, env, block_number)
            IN  <<ReadBody(block_number)>> \o
                IF ~(block_body.tag = "Ok" /\ block_body.val.some) THEN <<>>
                ELSE <<ReadReceipt(block_number, index)>>

\* create_access_list: the header, then the EVM when the header is found.
create_access_list_calls(request, store, env) ==
    LET block == IF request.block.some THEN request.block.val
                 ELSE DefaultBlockIdentifier
    IN  IF block.variant = "Tag" THEN <<>>
        ELSE LET header == get_block_header(store, env, block.number)
             IN  <<ReadHeader(block.number)>> \o
                 IF header.tag = "Ok" /\ header.val.some
                 THEN <<EvmCall>> ELSE <<>>

\* ------------------------------------------------------------------------
\* Engine handlers other than new_payload_v3 (crates/rpc/engine/mod.rs)
\* ------------------------------------------------------------------------

\* exchange_capabilities
exchange_capabilities(capabilities) == Ok(JStringList(capabilities))

\* Mutant of forkchoice_updated_v3: the stub reports VALID.
forkchoice_updated_v3_Valid ==
    Ok([ty |-> "forkchoiceupdated", payloadId |-> JNull,
        payloadStatus |-> [latestValidHash |-> JNull, status |-> "VALID",
                           validationError |-> JNull]])

\* forkchoice_updated_v3
forkchoice_updated_v3 ==
    Ok([ty |-> "forkchoiceupdated", payloadId |-> JNull,
        payloadStatus |-> [latestValidHash |-> JNull, status |-> "SYNCING",
                           validationError |-> JNull]])

\* ------------------------------------------------------------------------
\* Handlers whose code is in eth/client.rs, eth/account.rs and admin.rs
\* ------------------------------------------------------------------------

\* chain_id, syncing, get_balance, get_code, get_storage_at, node_info: a
\* value of the method, or Internal when the handler's storage read fails.
OtherHandler(method, env) ==
    IF env.other = "Internal" THEN Err("Internal")
    ELSE Ok([ty |-> "resultof", method |-> method])

\* ------------------------------------------------------------------------
\* Dispatcher and envelope codec (crates/rpc/rpc.rs)
\* ------------------------------------------------------------------------

\* The methods map_requests knows.
Methods ==
    { "engine_exchangeCapabilities", "eth_chainId", "eth_syncing",
      "eth_getBlockByNumber", "eth_getBlockByHash", "eth_getBalance",
      "eth_getCode", "eth_getStorageAt",
      "eth_getBlockTransactionCountByNumber",
      "eth_getTransactionByBlockNumberAndIndex",
      "eth_getTransactionByBlockHashAndIndex", "eth_getBlockReceipts",
      "eth_getTransactionByHash", "eth_getTransactionReceipt",
      "eth_createAccessList", "engine_forkchoiceUpdatedV3",
      "engine_newPayloadV3", "admin_nodeInfo" }

\* The "engine_exchangeCapabilities" arm.
MapExchangeCapabilities(req) ==
    IF ~req.params.some THEN Err("BadParams")
    ELSE IF Len(req.params.val) = 0 THEN Err("BadParams")
    ELSE IF req.params.val[1].ty # "stringlist" THEN Err("BadParams")
    ELSE exchange_capabilities(req.params.val[1].ss)

\* The "engine_newPayloadV3" arm.
MapNewPayloadV3(req) ==
    IF ~req.params.some THEN Err("BadParams")
    ELSE LET request == parse_new_payload_v3_request(req.params.val)
         IN  IF request.tag = "Err" THEN request
             ELSE LET status == new_payload_v3(request.val)
                  IN  IF status.tag = "Err" THEN status
                      ELSE Ok(JPayloadStatus(status.val))

\* Mutant of UnknownMethod: the default arm answers like a handler.
UnknownMethod_Routed == Ok(JNull)

\* The arm of map_requests for a method it does not know.
UnknownMethod == Err("MethodNotFound")

\* map_requests
map_requests(req, store, env) ==
    LET m == req.method
        p == req.params
    IN
    IF m = "engine_exchangeCapabilities" THEN MapExchangeCapabilities(req)
    ELSE IF m = "eth_chainId" THEN OtherHandler(m, env)
    ELSE IF m = "eth_syncing" THEN OtherHandler(m, env)
    ELSE IF m = "eth_getBlockByNumber" THEN
        LET request == GetBlockByNumberRequest_parse(p)
        IN  IF ~request.some THEN Err("BadParams")
            ELSE get_block_by_number(request.val, store, env)
    ELSE IF m = "eth_getBlockByHash" THEN
        LET request == GetBlockByHashRequest_parse(p)
        IN  IF ~request.some THEN Err("BadParams")
            ELSE get_block_by_hash(request.val, store, env)
    ELSE IF m = "eth_getBalance" THEN
        LET request == ParseAccountRequest(p, 2)
        IN  IF ~request.some THEN Err("BadParams") ELSE OtherHandler(m, env)
    ELSE IF m = "eth_getCode" THEN
        LET request == ParseAccountRequest(p, 2)
        IN  IF ~request.some THEN Err("BadParams") ELSE OtherHandler(m, env)
    ELSE IF m = "eth_getStorageAt" THEN
        LET request == ParseAccountRequest(p, 3)
        IN  IF ~request.some THEN Err("BadParams") ELSE OtherHandler(m, env)
    ELSE IF m = "eth_getBlockTransactionCountByNumber" THEN
        LET request == GetBlockTransactionCountByNumberRequest_parse(p)
        IN  IF ~request.some THEN Err("BadParams")
            ELSE get_block_transaction_count_by_number(request.val, store, env)
    ELSE IF m = "eth_getTransactionByBlockNumberAndIndex" THEN
        LET request == GetTransactionByBlockNumberAndIndexRequest_parse(p)
        IN  IF ~request.some THEN Err("BadParams")
            ELSE get_transaction_by_block_number_and_index(request.val, store, env)
    ELSE IF m = "eth_getTransactionByBlockHashAndIndex" THEN
        LET request == GetTransactionByBlockHashAndIndexRequest_parse(p)
        IN  IF ~request.some THEN Err("BadParams")
            ELSE get_transaction_by_block_hash_and_index(request.val, store, env)
    ELSE IF m = "eth_getBlockReceipts" THEN
        LET request == GetBlockReceiptsRequest_parse(p)
        IN  IF ~request.some THEN Err("BadParams")
            ELSE get_block_receipts(request.val, store, env)
    ELSE IF m = "eth_getTransactionByHash" THEN
        LET request == GetTransactionByHashRequest_parse(p)
        IN  IF ~request.some THEN Err("BadParams")
            ELSE get_transaction_by_hash(request.val, store, env)
    ELSE IF m = "eth_getTransactionReceipt" THEN
        LET request == GetTransactionReceiptRequest_parse(p)
        IN  IF ~request.some THEN Err("BadParams")
            ELSE get_transaction_receipt(request.val, store, env)
    ELSE IF m = "eth_createAccessList" THEN
        LET request == CreateAccessListRequest_parse(p)
        IN  IF ~request.some THEN Err("BadParams")
            ELSE create_access_list(request.val, store, env)
    ELSE IF m = "engine_forkchoiceUpdatedV3" THEN forkchoice_updated_v3
    ELSE IF m = "engine_newPayloadV3" THEN MapNewPayloadV3(req)
    ELSE IF m = "admin_nodeInfo" THEN OtherHandler(m, env)
    ELSE UnknownMethod

\* Control enters the body of a handler.
Enter(handler) == [op |-> "enter", handler |-> handler]

\* What a handler of eth/client.rs, eth/account.rs or admin.rs does with
\* its collaborators.
OtherHandlerCalls(method) == <<[op |-> "other", handler |-> method]>>

\* What map_requests does for req besides computing its result: the handler
\* it enters once the parameters parsed, and that handler's calls.
map_requests_calls(req, store, env) ==
    LET m == req.method
        p == req.params
    IN
    IF m = "engine_exchangeCapabilities" THEN
        IF MapExchangeCapabilities(req) = Err("BadParams") THEN <<>>
        ELSE <<Enter("exchange_capabilities")>>
    ELSE IF m \in {"eth_chainId", "eth_syncing", "admin_nodeInfo"} THEN
        <<Enter(m)>> \o OtherHandlerCalls(m)
    ELSE IF m = "eth_getBlockByNumber" THEN
        LET request == GetBlockByNumberRequest_parse(p)
        IN  IF ~request.some THEN <<>>
            ELSE <<Enter("get_block_by_number")>> \o
                 get_block_by_number_calls(request.val, store, env)
    ELSE IF m = "eth_getBlockByHash" THEN
        LET request == GetBlockByHashRequest_parse(p)
        IN  IF ~request.some THEN <<>>
            ELSE <<Enter("get_block_by_hash")>> \o
                 get_block_by_hash_calls(request.val, store, env)
    ELSE IF m \in {"eth_getBalance", "eth_getCode"} THEN
        LET request == ParseAccountRequest(p, 2)
        IN  IF ~request.some THEN <<>>
            ELSE <<Enter(m)>> \o OtherHandlerCalls(m)
    ELSE IF m = "eth_getStorageAt" THEN
        LET request == ParseAccountRequest(p, 3)
        IN  IF ~request.some THEN <<>>
            ELSE <<Enter(m)>> \o OtherHandlerCalls(m)
    ELSE IF m = "eth_getBlockTransactionCountByNumber" THEN
        LET request == GetBlockTransactionCountByNumberRequest_parse(p)
        IN  IF ~request.some THEN <<>>
            ELSE <<Enter("get_block_transaction_count_by_number")>> \o
                 get_block_transaction_count_by_number_calls(request.val,
                                                             store, env)
    ELSE IF m = "eth_getTransactionByBlockNumberAndIndex" THEN
        LET request == GetTransactionByBlockNumberAndIndexRequest_parse(p)
        IN  IF ~request.some THEN <<>>
            ELSE <<Enter("get_transaction_by_block_number_and_index")>> \o
                 get_transaction_by_block_number_and_index_calls(request.val,
                                                                 store, env)
    ELSE IF m = "eth_getTransactionByBlockHashAndIndex" THEN
        LET request == GetTransactionByBlockHashAndIndexRequest_parse(p)
        IN  IF ~request.some THEN <<>>
            ELSE <<Enter("get_transaction_by_block_hash_and_index")>> \o
                 get_transaction_by_block_hash_and_index_calls(request.val,
                                                               store, env)
    ELSE IF m = "eth_getBlockReceipts" THEN
        LET request == GetBlockReceiptsRequest_parse(p)
        IN  IF ~request.some THEN <<>>
            ELSE <<Enter("get_block_receipts")>> \o
                 get_block_receipts_calls(request.val, store, env)
    ELSE IF m = "eth_getTransactionByHash" THEN
        LET request == GetTransactionByHashRequest_parse(p)
        IN  IF ~request.some THEN <<>>
            ELSE <<Enter("get_transaction_by_hash")>> \o
                 get_transaction_by_hash_calls(request.val, store, env)
    ELSE IF m = "eth_getTransactionReceipt" THEN
        LET request == GetTransactionReceiptRequest_parse(p)
        IN  IF ~request.some THEN <<>>
            ELSE <<Enter("get_transaction_receipt")>> \o
                 get_transaction_receipt_calls(request.val, store, env)
    ELSE IF m = "eth_createAccessList" THEN
        LET request == CreateAccessListRequest_parse(p)
        IN  IF ~request.some THEN <<>>
            ELSE <<Enter("create_access_list")>> \o
                 create_access_list_calls(request.val, store, env)
    ELSE IF m = "engine_forkchoiceUpdatedV3" THEN
        <<Enter("forkchoice_updated_v3")>>
    ELSE IF m = "engine_newPayloadV3" THEN
        IF ~p.some THEN <<>>
        ELSE IF parse_new_payload_v3_request(p.val).tag = "Err" THEN <<>>
        ELSE <<Enter("new_payload_v3")>>
    ELSE <<>>

\* map_internal_requests
map_internal_requests(req, store, env) == Err("MethodNotFound")

\* RpcErrorMetadata::from(RpcErr): the wire code and message of the kind.
RpcErrorMetadataFrom(error) == [kind |-> error]

\* rpc_response
rpc_response(id, res) ==
    IF res.tag = "Ok"
    THEN [envelope |-> "RpcSuccessResponse", id |-> id, jsonrpc |-> "2.0",
          result |-> res.val]
    ELSE [envelope |-> "RpcErrorResponse", id |-> id, jsonrpc |-> "2.0",
          error |-> RpcErrorMetadataFrom(res.err)]

\* What the transport sees of a handler that panicked: no response.
Fault == [envelope |-> "Fault"]

\* handle_http_request, after the body parsed into req.
handle_http_request(req, store, env) ==
    LET res == map_requests(req, store, env)
    IN  IF res.tag = "Panic" THEN Fault ELSE rpc_response(req.id, res)

\* The dispatchers handle_authrpc_request consults, in order:
\* map_internal_requests is the `_` arm of the match on what map_requests
\* returned.
handle_authrpc_request_calls(req, store, env) ==
    LET first == map_requests(req, store, env)
    IN  <<"map_requests">> \o
        IF first.tag = "Err" THEN <<"map_internal_requests">> ELSE <<>>

\* Mutant of handle_authrpc_request: every request is answered by
\* map_internal_requests.
handle_authrpc_request_InternalOnly(req, store, env) ==
    LET first == map_requests(req, store, env)
    IN  IF first.tag = "Panic" THEN Fault
        ELSE rpc_response(req.id, map_internal_requests(req, store, env))

\* handle_authrpc_request, after the body parsed into req.
handle_authrpc_request(req, store, env) ==
    LET first == map_requests(req, store, env)
    IN  IF first.tag = "Panic" THEN Fault
        ELSE LET res == IF first.tag = "Ok" THEN first
                        ELSE map_internal_requests(req, store, env)
             IN  rpc_response(req.id, res)

\* ------------------------------------------------------------------------
\* Transaction normalization (cmd/ef_tests/types.rs)
\* ------------------------------------------------------------------------

\* H160::zero()
ZeroAddress == 0

\* The wire transactions converted: every combination of the fields below,
\* the remaining fields (data, value, r, s, hash, sender) being the same in
\* all of them. Values above U64Max are U256 values that do not fit a u64.
WireTransactions ==
    [ transaction_type : {None} \cup {Some(t) : t \in 0..4}
                            \cup {Some(U64Max + 1)},
      data : {<<>>},
      gas_limit : {21000},
      gas_price : {None, Some(100)},
      nonce : {0, U64Max + 1},
      r : {11},
      s : {12},
      v : {0, 1, 27},
      value : {10},
      chain_id : {None, Some(5)},
      access_list : {None,
                     Some(<<[address |-> 7, storage_keys |-> <<0, 5>>]>>)},
      max_fee_per_gas : {None, Some(50)},
      max_fee_per_blob_gas : {None, Some(3)},
      max_priority_fee_per_gas : {None, Some(2)},
      blob_versioned_hashes : {None, Some(<<1>>)},
      hash : {None},
      sender : {3},
      to : {ZeroAddress, 4} ]

\* U256::as_u64 panics on a value that does not fit a u64.
FitsU64(x) == x <= U64Max

\* Option::unwrap_or(default)
unwrap_or(option, default) == IF option.some THEN option.val ELSE default

\* Mutant of TxKindOf: every `to` is the address of a call.
TxKindOf_AlwaysCall(to) == [kind |-> "Call", to |-> to]

\* TxKind, from the wire `to`.
TxKindOf(to) ==
    IF to = ZeroAddress THEN [kind |-> "Create"]
    ELSE [kind |-> "Call", to |-> to]

\* A `to` field of type Address.
AddressOf(to) == [kind |-> "Address", to |-> to]

\* The (address, storage_keys) pairs of the wire access list, or of the
\* default (empty) one.
AccessListOf(access_list) ==
    LET items == unwrap_or(access_list, <<>>)
    IN  [i \in 1..Len(items) |-> <<items[i].address, items[i].storage_keys>>]

\* impl From<Transaction> for LegacyTransaction
LegacyTransaction_from(val) ==
    IF ~FitsU64(val.nonce) \/ ~FitsU64(unwrap_or(val.gas_price, 0))
       \/ ~FitsU64(val.gas_limit)
    THEN Panic
    ELSE [nonce |-> val.nonce,
          gas_price |-> unwrap_or(val.gas_price, 0),
          gas |-> val.gas_limit,
          to |-> TxKindOf(val.to),
          value |-> val.value,
          data |-> val.data,
          v |-> val.v,
          r |-> val.r,
          s |-> val.s]

\* Mutant of EIP2930Transaction_from: signature_y_parity is true only when
\* v is exactly 1.
EIP2930Transaction_from_ParityIsOne(val) ==
    IF (val.chain_id.some /\ ~FitsU64(val.chain_id.val))
       \/ ~FitsU64(val.nonce) \/ ~FitsU64(unwrap_or(val.gas_price, 0))
       \/ ~FitsU64(val.gas_limit)
    THEN Panic
    ELSE [chain_id |-> unwrap_or(val.chain_id, 1),
          nonce |-> val.nonce,
          gas_price |-> unwrap_or(val.gas_price, 0),
          gas_limit |-> val.gas_limit,
          to |-> TxKindOf(val.to),
          value |-> val.value,
          data |-> val.data,
          access_list |-> AccessListOf(val.access_list),
          signature_y_parity |-> val.v = 1,
          signature_r |-> val.r,
          signature_s |-> val.s]

\* impl From<Transaction> for EIP2930Transaction
EIP2930Transaction_from(val) ==
    IF (val.chain_id.some /\ ~FitsU64(val.chain_id.val))
       \/ ~FitsU64(val.nonce) \/ ~FitsU64(unwrap_or(val.gas_price, 0))
       \/ ~FitsU64(val.gas_limit)
    THEN Panic
    ELSE [chain_id |-> unwrap_or(val.chain_id, 1),
          nonce |-> val.nonce,
          gas_price |-> unwrap_or(val.gas_price, 0),
          gas_limit |-> val.gas_limit,
          to |-> TxKindOf(val.to),
          value |-> val.value,
          data |-> val.data,
          access_list |-> AccessListOf(val.access_list),
          signature_y_parity |-> val.v # 0,
          signature_r |-> val.r,
          signature_s |-> val.s]

\* Mutant of EIP1559Transaction_from: an absent max_fee_per_gas becomes
\* zero, whatever the gas_price.
EIP1559Transaction_from_NoGasPrice(val) ==
    IF (val.chain_id.some /\ ~FitsU64(val.chain_id.val))
       \/ ~FitsU64(val.nonce)
       \/ ~FitsU64(unwrap_or(val.max_priority_fee_per_gas, 0))
       \/ ~FitsU64(unwrap_or(val.max_fee_per_gas,
                             unwrap_or(val.gas_price, 0)))
       \/ ~FitsU64(val.gas_limit)
    THEN Panic
    ELSE [chain_id |-> unwrap_or(val.chain_id, 1),
          nonce |-> val.nonce,
          max_priority_fee_per_gas |->
              unwrap_or(val.max_priority_fee_per_gas, 0),
          max_fee_per_gas |->
              unwrap_or(val.max_fee_per_gas, 0),
          gas_limit |-> val.gas_limit,
          to |-> TxKindOf(val.to),
          value |-> val.value,
          data |-> val.data,
          access_list |-> AccessListOf(val.access_list),
          signature_y_parity |-> val.v # 0,
          signature_r |-> val.r,
          signature_s |-> val.s]

\* impl From<Transaction> for EIP1559Transaction
EIP1559Transaction_from(val) ==
    IF (val.chain_id.some /\ ~FitsU64(val.chain_id.val))
       \/ ~FitsU64(val.nonce)
       \/ ~FitsU64(unwrap_or(val.max_priority_fee_per_gas, 0))
       \/ ~FitsU64(unwrap_or(val.max_fee_per_gas,
                             unwrap_or(val.gas_price, 0)))
       \/ ~FitsU64(val.gas_limit)
    THEN Panic
    ELSE [chain_id |-> unwrap_or(val.chain_id, 1),
          nonce |-> val.nonce,
          max_priority_fee_per_gas |->
              unwrap_or(val.max_priority_fee_per_gas, 0),
          max_fee_per_gas |->
              unwrap_or(val.max_fee_per_gas, unwrap_or(val.gas_price, 0)),
          gas_limit |-> val.gas_limit,
          to |-> TxKindOf(val.to),
          value |-> val.value,
          data |-> val.data,
          access_list |-> AccessListOf(val.access_list),
          signature_y_parity |-> val.v # 0,
          signature_r |-> val.r,
          signature_s |-> val.s]

\* Mutant of EIP4844Transaction_from: an absent max_fee_per_blob_gas
\* becomes zero.
EIP4844Transaction_from_DefaultBlobFee(val) ==
    IF (val.chain_id.some /\ ~FitsU64(val.chain_id.val))
       \/ ~FitsU64(val.nonce)
       \/ ~FitsU64(unwrap_or(val.max_priority_fee_per_gas, 0))
       \/ ~FitsU64(unwrap_or(val.max_fee_per_gas,
                             unwrap_or(val.gas_price, 0)))
       \/ ~FitsU64(val.gas_limit)
    THEN Panic
    ELSE [chain_id |-> unwrap_or(val.chain_id, 1),
          nonce |-> val.nonce,
          max_priority_fee_per_gas |->
              unwrap_or(val.max_priority_fee_per_gas, 0),
          max_fee_per_gas |->
              unwrap_or(val.max_fee_per_gas, unwrap_or(val.gas_price, 0)),
          gas |-> val.gas_limit,
          to |-> AddressOf(val.to),
          value |-> val.value,
          data |-> val.data,
          access_list |-> AccessListOf(val.access_list),
          max_fee_per_blob_gas |-> unwrap_or(val.max_fee_per_blob_gas, 0),
          blob_versioned_hashes |-> unwrap_or(val.blob_versioned_hashes, <<>>),
          signature_y_parity |-> val.v # 0,
          signature_r |-> val.r,
          signature_s |-> val.s]

\* impl From<Transaction> for EIP4844Transaction
EIP4844Transaction_from(val) ==
    IF (val.chain_id.some /\ ~FitsU64(val.chain_id.val))
       \/ ~FitsU64(val.nonce)
       \/ ~FitsU64(unwrap_or(val.max_priority_fee_per_gas, 0))
       \/ ~FitsU64(unwrap_or(val.max_fee_per_gas,
                             unwrap_or(val.gas_price, 0)))
       \/ ~FitsU64(val.gas_limit)
       \/ ~val.max_fee_per_blob_gas.some
    THEN Panic
    ELSE [chain_id |-> unwrap_or(val.chain_id, 1),
          nonce |-> val.nonce,
          max_priority_fee_per_gas |->
              unwrap_or(val.max_priority_fee_per_gas, 0),
          max_fee_per_gas |->
              unwrap_or(val.max_fee_per_gas, unwrap_or(val.gas_price, 0)),
          gas |-> val.gas_limit,
          to |-> AddressOf(val.to),
          value |-> val.value,
          data |-> val.data,
          access_list |-> AccessListOf(val.access_list),
          max_fee_per_blob_gas |-> val.max_fee_per_blob_gas.val,
          blob_versioned_hashes |-> unwrap_or(val.blob_versioned_hashes, <<>>),
          signature_y_parity |-> val.v # 0,
          signature_r |-> val.r,
          signature_s |-> val.s]

\* A variant of ethereum_rustTransaction around a converted transaction;
\* a conversion that panicked leaves no value to wrap.
Variant(name, tx) ==
    IF tx = Panic THEN Panic ELSE [variant |-> name, tx |-> tx]

\* Mutant of ethereum_rustTransaction_from: a type the match does not know
\* is converted as a legacy transaction.
ethereum_rustTransaction_from_UnknownIsLegacy(val) ==
    IF ~val.transaction_type.some
    THEN Variant("LegacyTransaction", LegacyTransaction_from(val))
    ELSE IF ~FitsU64(val.transaction_type.val) THEN Panic
    ELSE IF val.transaction_type.val = 1
    THEN Variant("EIP2930Transaction", EIP2930Transaction_from(val))
    ELSE IF val.transaction_type.val = 2
    THEN Variant("EIP1559Transaction", EIP1559Transaction_from(val))
    ELSE IF val.transaction_type.val = 3
    THEN Variant("EIP4844Transaction", EIP4844Transaction_from(val))
    ELSE Variant("LegacyTransaction", LegacyTransaction_from(val))

\* impl From<Transaction> for ethereum_rustTransaction
ethereum_rustTransaction_from(val) ==
    IF ~val.transaction_type.some
    THEN Variant("LegacyTransaction", LegacyTransaction_from(val))
    ELSE IF ~FitsU64(val.transaction_type.val) THEN Panic
    ELSE IF val.transaction_type.val = 0
    THEN Variant("LegacyTransaction", LegacyTransaction_from(val))
    ELSE IF val.transaction_type.val = 1
    THEN Variant("EIP2930Transaction", EIP2930Transaction_from(val))
    ELSE IF val.transaction_type.val = 2
    THEN Variant("EIP1559Transaction", EIP1559Transaction_from(val))
    ELSE IF val.transaction_type.val = 3
    THEN Variant("EIP4844Transaction", EIP4844Transaction_from(val))
    ELSE Panic


\* ------------------------------------------------------------------------
\* The requests sent to the two listeners
\* ------------------------------------------------------------------------

\* RpcRequest.id
Ids == {1, 7}

UnknownMethods == {"eth_blockNumber", "engine_newPayloadV2", "eth_chainid", ""}

BlockIdentifierParams ==
    {JHexNum(0), JHexNum(1), JHexNum(2)} \cup {JString(t) : t \in BlockTags}
        \cup {JString("newest"), JNull}

HydratedParams == {JBool(TRUE), JBool(FALSE), JNull}

IndexParams == {JNumber(0), JNumber(1), JNumber(2), JNumber(-1), JHexNum(0)}

HashParams == {JHash(1), JHash(2), JHash(3), JNull}

TransactionParams ==
    {JTransaction([from |-> 3, to |-> 4, value |-> 10]), JString("0x")}

\* Payload requests with at most one transaction and one expected hash.
PayloadParams ==
    { <<JPayload(p), JHashList(e), JHash(r)>> :
        p \in [block_hash : Hashes, timestamp : Timestamps,
               transactions : SeqsUpTo(EncodedTxs, 1)],
        e \in SeqsUpTo(BlobHashes, 1), r \in BeaconRoots }

\* Parameter lists of one and of two parameters.
Lists1(A) == {<<a>> : a \in A}

Lists2(A, B) == {<<a, b>> : a \in A, b \in B}

\* Present parameter lists, and the absent list.
Present(lists) == {Some(l) : l \in lists}

Failing(reads) == {Env(f, QuietEvm, "Ok") : f \in {{}} \cup {{r} : r \in reads}}

\* The parameter lists and the collaborators' behaviour tried per method.
ScenariosOf(method) ==
    IF method = "eth_getBlockByNumber" THEN
        ({None} \cup Present({<<>>, <<JHexNum(1)>>,
                              <<JHexNum(1), JBool(TRUE), JNull>>}
                             \cup Lists2(BlockIdentifierParams, HydratedParams)))
        \X Failing({"header", "body"})
    ELSE IF method = "eth_getBlockByHash" THEN
        ({None} \cup Present({<<>>, <<JHash(2)>>}
                             \cup Lists2(HashParams, HydratedParams)))
        \X Failing({"number", "header", "body"})
    ELSE IF method = "eth_getBlockTransactionCountByNumber" THEN
        ({None} \cup Present({<<>>, <<JHexNum(1), JNull>>}
                             \cup Lists1(BlockIdentifierParams)))
        \X Failing({"body"})
    ELSE IF method = "eth_getTransactionByBlockNumberAndIndex" THEN
        ({None} \cup Present({<<>>, <<JHexNum(1)>>}
                             \cup Lists2(BlockIdentifierParams, IndexParams)))
        \X Failing({"body"})
    ELSE IF method = "eth_getTransactionByBlockHashAndIndex" THEN
        ({None} \cup Present({<<>>, <<JHash(2)>>}
                             \cup Lists2(HashParams, IndexParams)))
        \X Failing({"number", "body"})
    ELSE IF method = "eth_getBlockReceipts" THEN
        ({None} \cup Present({<<>>, <<JHexNum(1), JNull>>}
                             \cup Lists1(BlockIdentifierParams)))
        \X Failing({"header", "body", "receipt"})
    ELSE IF method = "eth_getTransactionByHash" THEN
        ({None} \cup Present({<<>>, <<JHash(1), JNull>>}
                             \cup Lists1(HashParams)))
        \X Failing({"location", "body"})
    ELSE IF method = "eth_getTransactionReceipt" THEN
        ({None} \cup Present({<<>>, <<JHash(1), JNull>>}
                             \cup Lists1(HashParams)))
        \X Failing({"location", "header", "body", "receipt"})
    ELSE IF method = "eth_createAccessList" THEN
        ({None} \cup Present({<<>>, <<JTransaction([from |-> 3, to |-> 4,
                                                    value |-> 10]),
                                      JHexNum(1), JNull>>}
                             \cup Lists1(TransactionParams)
                             \cup Lists2(TransactionParams,
                                         BlockIdentifierParams)))
        \X (Failing({"header"}) \cup {Env({}, o, "Ok") : o \in EvmOutcomes})
    ELSE IF method = "engine_newPayloadV3" THEN
        ({None} \cup Present({<<>>, <<JNull, JHashList(<<>>), JHash(0)>>,
                              <<JPayload([block_hash |-> 1, timestamp |-> 1,
                                          transactions |-> <<>>]),
                                JHashList(<<>>)>>}
                             \cup PayloadParams))
        \X {QuietEnv}
    ELSE IF method = "engine_exchangeCapabilities" THEN
        ({None} \cup Present({<<>>, <<JNull>>,
                              <<JStringList(<<"engine_newPayloadV3">>)>>,
                              <<JStringList(<<>>), JNull>>}))
        \X {QuietEnv}
    ELSE IF method \in {"eth_getBalance", "eth_getCode"} THEN
        ({None} \cup Present({<<JAccountParam(TRUE)>>}
                             \cup Lists2({JAccountParam(TRUE),
                                          JAccountParam(FALSE)},
                                         {JAccountParam(TRUE),
                                          JAccountParam(FALSE)})))
        \X {QuietEnv, Env({}, QuietEvm, "Internal")}
    ELSE IF method = "eth_getStorageAt" THEN
        ({None} \cup Present({<<JAccountParam(TRUE), JAccountParam(TRUE)>>,
                              <<JAccountParam(TRUE), JAccountParam(TRUE),
                                JAccountParam(TRUE)>>,
                              <<JAccountParam(TRUE), JAccountParam(FALSE),
                                JAccountParam(TRUE)>>}))
        \X {QuietEnv, Env({}, QuietEvm, "Internal")}
    ELSE IF method \in {"eth_chainId", "eth_syncing", "admin_nodeInfo"} THEN
        {None, Some(<<>>), Some(<<JNull>>)}
        \X {QuietEnv, Env({}, QuietEvm, "Internal")}
    ELSE IF method = "engine_forkchoiceUpdatedV3" THEN
        {None, Some(<<>>), Some(<<JNull, JNull>>)}
        \X {QuietEnv, Env({"header"}, QuietEvm, "Internal")}
    ELSE \* a method map_requests does not know
        {None, Some(<<>>), Some(<<JHexNum(1), JBool(TRUE)>>)}
        \X {QuietEnv, Env({"header"}, QuietEvm, "Internal")}

RpcRequest(id, method, params) ==
    [jsonrpc |-> "2.0", id |-> id, method |-> method, params |-> params]

\* ------------------------------------------------------------------------
\* State
\* ------------------------------------------------------------------------

VARIABLES
    enginePc,     \* the stage new_payload_v3 is at
    engineReq,    \* its NewPayloadV3Request
    engineBlock,  \* (block_header, block_body) once decoded
    engineRes,    \* its return value once it returned
    engineLog,    \* the stages it ran, in order
    store,        \* the storage collaborator
    rpcPc,        \* "idle", "received" (a request is in its handler), "responded"
    chan,         \* the listener the request came to: "http" or "authrpc"
    req,          \* the RpcRequest parsed from the body
    env,          \* what the collaborators do during the request
    resp,         \* the response handed to the transport
    calls,        \* the handler entered for the request and its calls
    rcPc,         \* the line get_block_receipts is at
    rcHeader,     \* its local `header` once read
    rcBody,       \* its local `body` once read
    rcIndex,      \* the index its loop is at
    rcReceipts,   \* its local `receipts`
    txIn,         \* the wire transaction handed to the conversion
    txOut,        \* what the conversion returned
    server,       \* what each listener's server future is doing
    inflight,     \* the requests each listener accepted and has not answered
    ctrl_c,       \* the interrupt has been delivered to the process
    joined,       \* what try_join! in start_api has returned
    conns         \* the connections served at the same time, each with
                  \* its listener, request, collaborators, the calls its
                  \* handler has made so far and its response

engineVars == <<enginePc, engineReq, engineBlock, engineRes, engineLog>>

rpcVars == <<store, rpcPc, chan, req, env, resp, calls>>

rcVars == <<rcPc, rcHeader, rcBody, rcIndex, rcReceipts>>

txVars == <<txIn, txOut>>

apiVars == <<server, inflight, ctrl_c, joined>>

connVars == <<conns>>

vars == <<enginePc, engineReq, engineBlock, engineRes, engineLog,
          store, rpcPc, chan, req, env, resp, calls,
          rcPc, rcHeader, rcBody, rcIndex, rcReceipts, txIn, txOut,
          server, inflight, ctrl_c, joined, conns>>

NoRequest == [method |-> "none"]

NoResponse == [envelope |-> "None"]

NotRead == [tag |-> "NotRead"]

\* get_block_receipts is not followed line by line.
ReceiptsOff ==
    /\ rcPc = "off"
    /\ rcHeader = NotRead
    /\ rcBody = NotRead
    /\ rcIndex = 0
    /\ rcReceipts = <<>>

NoWireTransaction == [transaction_type |-> "none"]

NotConverted == [tag |-> "NotConverted"]

\* The two listeners of start_api.
Listeners == {"http", "authrpc"}

\* start_api is not followed.
ApiOff ==
    /\ server = [l \in Listeners |-> "off"]
    /\ inflight = [l \in Listeners |-> 0]
    /\ ctrl_c = FALSE
    /\ joined = "off"

Conns == 1..MaxConcurrent

\* A connection with no request on it.
IdleConn ==
    [pc |-> "idle", chan |-> "none", req |-> NoRequest, env |-> QuietEnv,
     done |-> <<>>, resp |-> NoResponse]

\* No connection is followed.
ConnsOff == conns = [i \in Conns |-> IdleConn]

\* No transaction is being converted.
NormalizeOff ==
    /\ txIn = NoWireTransaction
    /\ txOut = NotConverted

\* No request is at either listener.
RpcIdle ==
    /\ rpcPc = "idle"
    /\ chan = "none"
    /\ req = NoRequest
    /\ env = QuietEnv
    /\ resp = NoResponse
    /\ calls = <<>>

\* ------------------------------------------------------------------------
\* new_payload_v3, stage by stage
\* ------------------------------------------------------------------------

NoBlock == [decoded |-> FALSE]

NoResult == [tag |-> "Running"]

InitEngine ==
    /\ engineReq \in NewPayloadV3Requests
    /\ enginePc = "decode"
    /\ engineBlock = NoBlock
    /\ engineRes = NoResult
    /\ engineLog = <<>>
    /\ store \in {MkStore(EmptyMap, EmptyMap, EmptyMap, {}, EmptyMap)}
    /\ RpcIdle
    /\ ReceiptsOff
    /\ NormalizeOff
    /\ ApiOff
    /\ ConnsOff

\* Lines 38-48: request.payload.into_block(request.parent_beacon_block_root)
Decode ==
    /\ enginePc = "decode"
    /\ engineLog' = Append(engineLog, "decode")
    /\ LET decoded == into_block(engineReq.payload,
                                engineReq.parent_beacon_block_root)
       IN  IF decoded.tag = "Err"
           THEN /\ engineRes' = Ok(DecodeFailureStatus(decoded.err))
                /\ enginePc' = "done"
                /\ UNCHANGED engineBlock
           ELSE /\ engineBlock' = [decoded |-> TRUE,
                                   header |-> decoded.val.header,
                                   body |-> decoded.val.body]
                /\ enginePc' = "fork"
                /\ UNCHANGED engineRes
    /\ UNCHANGED <<engineReq, rpcVars, rcVars, txVars, apiVars, connVars>>

\* Mutant of ForkCheck: the failed check does not return.
ForkCheck_FallsThrough ==
    /\ enginePc = "fork"
    /\ engineLog' = Append(engineLog, "fork")
    /\ enginePc' = "hash"
    /\ UNCHANGED <<engineReq, engineBlock, engineRes, rpcVars, rcVars, txVars, apiVars, connVars>>

\* Lines 52-56: the Cancun activation check.
ForkCheck ==
    /\ enginePc = "fork"
    /\ engineLog' = Append(engineLog, "fork")
    /\ IF ForkCheckFails(engineBlock.header)
       THEN /\ engineRes' = Err("UnsuportedFork")
            /\ enginePc' = "done"
       ELSE /\ enginePc' = "hash"
            /\ UNCHANGED engineRes
    /\ UNCHANGED <<engineReq, engineBlock, rpcVars, rcVars, txVars, apiVars, connVars>>

\* Lines 57-66: the block hash check.
HashCheck ==
    /\ enginePc = "hash"
    /\ engineLog' = Append(engineLog, "hash")
    /\ IF BlockHashMismatch(engineReq.payload.block_hash, engineBlock.header)
       THEN /\ engineRes' = Ok(InvalidBlockHashStatus)
            /\ enginePc' = "done"
       ELSE /\ enginePc' = "blob"
            /\ UNCHANGED engineRes
    /\ UNCHANGED <<engineReq, engineBlock, rpcVars, rcVars, txVars, apiVars, connVars>>

\* Lines 67-80: the blob versioned hashes check.
BlobCheck ==
    /\ enginePc = "blob"
    /\ engineLog' = Append(engineLog, "blob")
    /\ IF BlobHashesMismatch(engineReq.expected_blob_versioned_hashes,
                             engineBlock.body)
       THEN /\ engineRes' = Ok(InvalidBlobHashesStatus)
            /\ enginePc' = "done"
       ELSE /\ enginePc' = "accept"
            /\ UNCHANGED engineRes
    /\ UNCHANGED <<engineReq, engineBlock, rpcVars, rcVars, txVars, apiVars, connVars>>

\* Lines 82-86: the payload is valid.
Accept ==
    /\ enginePc = "accept"
    /\ engineLog' = Append(engineLog, "accept")
    /\ engineRes' = Ok(ValidStatus(engineReq.payload.block_hash))
    /\ enginePc' = "done"
    /\ UNCHANGED <<engineReq, engineBlock, rpcVars, rcVars, txVars, apiVars, connVars>>

NextEngine == Decode \/ ForkCheck \/ HashCheck \/ BlobCheck \/ Accept

SpecEngine == InitEngine /\ [][NextEngine]_vars

\* ------------------------------------------------------------------------
\* The two listeners
\* ------------------------------------------------------------------------

EngineOff ==
    /\ enginePc = "off"
    /\ engineReq = [payload |-> "none"]
    /\ engineBlock = NoBlock
    /\ engineRes = NoResult
    /\ engineLog = <<>>

Init ==
    /\ store \in Stores
    /\ RpcIdle
    /\ EngineOff
    /\ ReceiptsOff
    /\ NormalizeOff
    /\ ApiOff
    /\ ConnsOff

\* A request body arrives at a listener and parses into an RpcRequest.
Arrive(listener) ==
    /\ rpcPc = "idle"
    /\ \E id \in Ids, method \in Methods \cup UnknownMethods :
        \E scenario \in ScenariosOf(method) :
            /\ req' = RpcRequest(id, method, scenario[1])
            /\ env' = scenario[2]
    /\ chan' = listener
    /\ rpcPc' = "received"
    /\ UNCHANGED <<store, resp, calls>>

ArriveHttp == Arrive("http") /\ UNCHANGED <<engineVars, rcVars, txVars, apiVars, connVars>>

ArriveAuthrpc == Arrive("authrpc") /\ UNCHANGED <<engineVars, rcVars, txVars, apiVars, connVars>>

\* handle_http_request
HandleHttpRequest ==
    /\ rpcPc = "received"
    /\ chan = "http"
    /\ resp' = handle_http_request(req, store, env)
    /\ calls' = map_requests_calls(req, store, env)
    /\ store' = StoreAfter(store, map_requests_calls(req, store, env))
    /\ rpcPc' = "responded"
    /\ UNCHANGED <<chan, req, env>>
    /\ UNCHANGED <<engineVars, rcVars, txVars, apiVars, connVars>>

\* handle_authrpc_request
HandleAuthrpcRequest ==
    /\ rpcPc = "received"
    /\ chan = "authrpc"
    /\ resp' = handle_authrpc_request(req, store, env)
    /\ calls' = map_requests_calls(req, store, env)
    /\ store' = StoreAfter(store, map_requests_calls(req, store, env))
    /\ rpcPc' = "responded"
    /\ UNCHANGED <<chan, req, env>>
    /\ UNCHANGED <<engineVars, rcVars, txVars, apiVars, connVars>>

\* The transport sends the response (or drops the connection of a handler
\* that panicked) and the listener takes the next request.
Deliver ==
    /\ rpcPc = "responded"
    /\ rpcPc' = "idle"
    /\ chan' = "none"
    /\ req' = NoRequest
    /\ env' = QuietEnv
    /\ resp' = NoResponse
    /\ calls' = <<>>
    /\ UNCHANGED store
    /\ UNCHANGED <<engineVars, rcVars, txVars, apiVars, connVars>>

Next ==
    \/ ArriveHttp
    \/ ArriveAuthrpc
    \/ HandleHttpRequest
    \/ HandleAuthrpcRequest
    \/ Deliver

Spec == Init /\ [][Next]_vars

\* ------------------------------------------------------------------------
\* get_block_receipts, line by line, beside a writer of receipts
\* ------------------------------------------------------------------------

\* The i-th transaction of a block body.
TxOf(i) == [hash |-> i, nonce |-> i - 1]

\* Stores that hold block 1 in part: its header or not, its body of up to
\* MaxTxs transactions or not, and any of the receipts of that body.
ReceiptStores ==
    { MkStore(IF h THEN 1 :> HeaderOf(1) ELSE EmptyMap,
              IF b THEN 1 :> BodyOf([i \in 1..k |-> TxOf(i)]) ELSE EmptyMap,
              2 :> 1, r, EmptyMap) :
        h \in BOOLEAN, b \in BOOLEAN, k \in 0..MaxTxs,
        r \in SUBSET {<<1, i>> : i \in 0..(MaxTxs - 1)} }

InitReceipts ==
    /\ store \in ReceiptStores
    /\ env \in Failing({"header", "body", "receipt"})
    /\ req \in {RpcRequest(id, "eth_getBlockReceipts", Some(<<b>>)) :
                  id \in Ids, b \in {JHexNum(1), JString("latest")}}
    /\ chan = "http"
    /\ rpcPc = "received"
    /\ resp = NoResponse
    /\ calls = <<>>
    /\ rcPc = "dispatch"
    /\ rcHeader = NotRead
    /\ rcBody = NotRead
    /\ rcIndex = 0
    /\ rcReceipts = <<>>
    /\ EngineOff
    /\ NormalizeOff
    /\ ApiOff
    /\ ConnsOff

\* The local `request` of the map_requests arm.
RcRequest == GetBlockReceiptsRequest_parse(req.params).val

\* The local `block_number` of get_block_receipts.
RcBlockNumber == RcRequest.block.number

\* get_block_receipts returns res: rpc_response wraps it.
RcReturn(res) ==
    /\ resp' = rpc_response(req.id, res)
    /\ rpcPc' = "responded"
    /\ rcPc' = "done"

\* rpc.rs lines 124-126 and block.rs lines 333-336: the parameters parse,
\* the handler is entered and the identifier is matched.
RcDispatch ==
    /\ rcPc = "dispatch"
    /\ IF ~GetBlockReceiptsRequest_parse(req.params).some
       THEN /\ RcReturn(Err("BadParams"))
            /\ UNCHANGED calls
       ELSE /\ calls' = Append(calls, Enter("get_block_receipts"))
            /\ IF RcRequest.block.variant = "Tag"
               THEN /\ resp' = Fault
                    /\ rpcPc' = "responded"
                    /\ rcPc' = "done"
               ELSE /\ rcPc' = "header"
                    /\ UNCHANGED <<resp, rpcPc>>
    /\ UNCHANGED <<store, chan, req, env, rcHeader, rcBody, rcIndex,
                   rcReceipts, engineVars, txVars, apiVars, connVars>>

\* Line 337
RcReadHeader ==
    /\ rcPc = "header"
    /\ rcHeader' = get_block_header(store, env, RcBlockNumber)
    /\ calls' = Append(calls, ReadHeader(RcBlockNumber))
    /\ rcPc' = "body"
    /\ UNCHANGED <<store, rpcPc, chan, req, env, resp, rcBody, rcIndex,
                   rcReceipts, engineVars, txVars, apiVars, connVars>>

\* Line 338
RcReadBody ==
    /\ rcPc = "body"
    /\ rcBody' = get_block_body(store, env, RcBlockNumber)
    /\ calls' = Append(calls, ReadBody(RcBlockNumber))
    /\ rcPc' = "match"
    /\ UNCHANGED <<store, rpcPc, chan, req, env, resp, rcHeader, rcIndex,
                   rcReceipts, engineVars, txVars, apiVars, connVars>>

\* Lines 339-349
RcMatch ==
    /\ rcPc = "match"
    /\ IF rcHeader.tag = "Ok" /\ rcBody.tag = "Ok"
       THEN IF rcHeader.val.some /\ rcBody.val.some
            THEN /\ rcPc' = "loop"
                 /\ UNCHANGED <<resp, rpcPc>>
            ELSE RcReturn(Ok(JNull))
       ELSE RcReturn(Err("Internal"))
    /\ UNCHANGED <<store, chan, req, env, calls, rcHeader, rcBody, rcIndex,
                   rcReceipts, engineVars, txVars, apiVars, connVars>>

\* Mutant of RcLoop: a transaction whose receipt is not found is skipped.
RcLoop_SkipsMissing ==
    /\ rcPc = "loop"
    /\ IF rcIndex >= Len(rcBody.val.val.transactions)
       THEN /\ RcReturn(Ok(JReceipts(rcReceipts)))
            /\ UNCHANGED <<calls, rcIndex, rcReceipts>>
       ELSE LET receipt == get_receipt(store, env, RcBlockNumber, rcIndex)
            IN  /\ calls' = Append(calls, ReadReceipt(RcBlockNumber, rcIndex))
                /\ IF receipt.tag = "Err"
                   THEN /\ RcReturn(Err("Internal"))
                        /\ UNCHANGED <<rcIndex, rcReceipts>>
                   ELSE /\ rcReceipts' =
                              IF ~receipt.val.some THEN rcReceipts
                              ELSE Append(rcReceipts,
                                     ReceiptWithTxAndBlockInfo(
                                       receipt.val.val,
                                       tx_receipt_info(
                                         rcBody.val.val.transactions[rcIndex + 1],
                                         rcIndex),
                                       header_receipt_info(rcHeader.val.val)))
                        /\ rcIndex' = rcIndex + 1
                        /\ UNCHANGED <<resp, rpcPc, rcPc>>
    /\ UNCHANGED <<store, chan, req, env, rcHeader, rcBody, engineVars, txVars, apiVars, connVars>>

\* Lines 350-366: one turn of the loop, or the return after its last turn.
RcLoop ==
    /\ rcPc = "loop"
    /\ IF rcIndex >= Len(rcBody.val.val.transactions)
       THEN /\ RcReturn(Ok(JReceipts(rcReceipts)))
            /\ UNCHANGED <<calls, rcIndex, rcReceipts>>
       ELSE LET receipt == get_receipt(store, env, RcBlockNumber, rcIndex)
            IN  /\ calls' = Append(calls, ReadReceipt(RcBlockNumber, rcIndex))
                /\ IF receipt.tag = "Err"
                   THEN /\ RcReturn(Err("Internal"))
                        /\ UNCHANGED <<rcIndex, rcReceipts>>
                   ELSE IF ~receipt.val.some
                   THEN /\ RcReturn(Ok(JNull))
                        /\ UNCHANGED <<rcIndex, rcReceipts>>
                   ELSE /\ rcReceipts' =
                              Append(rcReceipts,
                                     ReceiptWithTxAndBlockInfo(
                                       receipt.val.val,
                                       tx_receipt_info(
                                         rcBody.val.val.transactions[rcIndex + 1],
                                         rcIndex),
                                       header_receipt_info(rcHeader.val.val)))
                        /\ rcIndex' = rcIndex + 1
                        /\ UNCHANGED <<resp, rpcPc, rcPc>>
    /\ UNCHANGED <<store, chan, req, env, rcHeader, rcBody, engineVars, txVars, apiVars, connVars>>

\* Another task stores one more receipt of block 1 (Store::add_receipt).
WriteReceipt ==
    /\ rcPc # "done"
    /\ \E i \in 0..(MaxTxs - 1) :
        /\ <<1, i>> \notin store.receipts
        /\ store' = [store EXCEPT !.receipts = @ \cup {<<1, i>>}]
    /\ UNCHANGED <<rpcPc, chan, req, env, resp, calls, rcVars, engineVars, txVars, apiVars, connVars>>

NextReceipts ==
    \/ RcDispatch
    \/ RcReadHeader
    \/ RcReadBody
    \/ RcMatch
    \/ RcLoop
    \/ WriteReceipt

SpecReceipts == InitReceipts /\ [][NextReceipts]_vars

\* ------------------------------------------------------------------------
\* The conversion of wire transactions
\* ------------------------------------------------------------------------

InitNormalize ==
    /\ txIn \in WireTransactions
    /\ txOut = NotConverted
    /\ store \in {MkStore(EmptyMap, EmptyMap, EmptyMap, {}, EmptyMap)}
    /\ RpcIdle
    /\ EngineOff
    /\ ReceiptsOff
    /\ ApiOff
    /\ ConnsOff

\* val.into(): the wire transaction is converted, or the conversion panics.
Normalize ==
    /\ txOut = NotConverted
    /\ txOut' = ethereum_rustTransaction_from(txIn)
    /\ UNCHANGED <<txIn, engineVars, rpcVars, rcVars, apiVars, connVars>>

NextNormalize == Normalize

SpecNormalize == InitNormalize /\ [][NextNormalize]_vars

\* ------------------------------------------------------------------------
\* start_api: the two servers, the interrupt and try_join!
\* ------------------------------------------------------------------------

Other(l) == CHOOSE k \in Listeners : k # l

\* A server future that has not resolved.
Running(l) == server[l] \in {"serving", "draining"}

\* Lines 29-46: both listeners are bound and both servers are built, each
\* with its own shutdown_signal(); line 51 awaits the two of them.
InitShutdown ==
    /\ server = [l \in Listeners |-> "serving"]
    /\ inflight = [l \in Listeners |-> 0]
    /\ ctrl_c = FALSE
    /\ joined = "pending"
    /\ ConnsOff
    /\ store \in {MkStore(EmptyMap, EmptyMap, EmptyMap, {}, EmptyMap)}
    /\ RpcIdle
    /\ EngineOff
    /\ ReceiptsOff
    /\ NormalizeOff

ShutdownFrame == UNCHANGED <<engineVars, rpcVars, rcVars, txVars, connVars>>

\* A serving listener accepts a request.
AcceptRequest(l) ==
    /\ server[l] = "serving"
    /\ inflight[l] < MaxInflight
    /\ inflight' = [inflight EXCEPT ![l] = @ + 1]
    /\ UNCHANGED <<server, ctrl_c, joined>>
    /\ ShutdownFrame

\* The handler of an accepted request returns and its response is sent.
FinishRequest(l) ==
    /\ Running(l)
    /\ inflight[l] > 0
    /\ inflight' = [inflight EXCEPT ![l] = @ - 1]
    /\ UNCHANGED <<server, ctrl_c, joined>>
    /\ ShutdownFrame

\* The process is interrupted.
CtrlC ==
    /\ ~ctrl_c
    /\ ctrl_c' = TRUE
    /\ UNCHANGED <<server, inflight, joined>>
    /\ ShutdownFrame

\* shutdown_signal() of one server resolves: tokio::signal::ctrl_c()
\* returned, and the server stops accepting and drains.
shutdown_signal(l) ==
    /\ ctrl_c
    /\ server[l] = "serving"
    /\ server' = [server EXCEPT ![l] = "draining"]
    /\ UNCHANGED <<inflight, ctrl_c, joined>>
    /\ ShutdownFrame

\* try_join! polls a server future that resolves to Ok(()): the server has
\* drained. try_join! returns Ok once both futures have.
ServerOk(l) ==
    /\ server[l] = "draining"
    /\ inflight[l] = 0
    /\ server' = [server EXCEPT ![l] = "closed"]
    /\ joined' = IF server[Other(l)] = "closed" THEN "Ok" ELSE "pending"
    /\ UNCHANGED <<inflight, ctrl_c>>
    /\ ShutdownFrame

\* try_join! polls a server future that resolves to Err(e): try_join!
\* returns the error at once and the other future, if it has not
\* resolved, is dropped with whatever it was serving.
ServerErr(l) ==
    /\ Running(l)
    /\ server' = [k \in Listeners |->
                     IF k = l THEN "failed"
                     ELSE IF Running(k) THEN "dropped" ELSE server[k]]
    /\ joined' = "Err"
    /\ UNCHANGED <<inflight, ctrl_c>>
    /\ ShutdownFrame

NextShutdown ==
    \/ \E l \in Listeners : AcceptRequest(l)
    \/ \E l \in Listeners : FinishRequest(l)
    \/ CtrlC
    \/ \E l \in Listeners : shutdown_signal(l)
    \/ \E l \in Listeners : ServerOk(l)
    \/ \E l \in Listeners : ServerErr(l)

SpecShutdown == InitShutdown /\ [][NextShutdown]_vars

\* The runtime keeps polling what is ready: a resolved shutdown_signal is
\* seen, an accepted request is answered and a drained server resolves.
SpecShutdownLive ==
    /\ SpecShutdown
    /\ \A l \in Listeners :
        /\ WF_vars(shutdown_signal(l))
        /\ WF_vars(FinishRequest(l))
        /\ WF_vars(ServerOk(l))

\* ------------------------------------------------------------------------
\* Requests handled at the same time on the two listeners
\* ------------------------------------------------------------------------

\* The requests tried together: reads that succeed, a read that fails, a
\* handler that panics, an EVM run and an unknown method.
ConcurrentScenarios ==
    { <<"eth_getBlockByHash", Some(<<JHash(2), JBool(FALSE)>>), QuietEnv>>,
      <<"eth_getBlockByNumber", Some(<<JHexNum(1), JBool(TRUE)>>),
        Env({"body"}, QuietEvm, "Ok")>>,
      <<"eth_getBlockByNumber", Some(<<JString("latest"), JBool(TRUE)>>),
        QuietEnv>>,
      <<"eth_createAccessList",
        Some(<<JTransaction([from |-> 3, to |-> 4, value |-> 10]),
               JHexNum(1)>>),
        QuietEnv>>,
      <<"eth_blockNumber", None, QuietEnv>> }

\* The store the requests run on: block 1 with both receipts.
ConcurrentStores ==
    { MkStore(1 :> HeaderOf(1), 1 :> BodyOf(<<TxA, TxB>>), 2 :> 1,
              {<<1, 0>>, <<1, 1>>}, (1 :> <<1, 0>>) @@ (2 :> <<1, 1>>)) }

\* The handler of a listener on a request handled with nothing beside it.
HandleOn(listener, request, storage, collaborators) ==
    IF listener = "http"
    THEN handle_http_request(request, storage, collaborators)
    ELSE handle_authrpc_request(request, storage, collaborators)

\* The calls the handler of connection i makes on its request.
ConnTrace(i) == map_requests_calls(conns[i].req, store, conns[i].env)

InitConcurrent ==
    /\ store \in ConcurrentStores
    /\ ConnsOff
    /\ RpcIdle
    /\ EngineOff
    /\ ReceiptsOff
    /\ NormalizeOff
    /\ ApiOff

ConcurrentFrame ==
    UNCHANGED <<engineVars, rpcVars, rcVars, txVars, apiVars>>

\* axum passes the body and a clone of the store to the handler of the
\* route, in a task of the connection.
ConnArrive(i) ==
    /\ conns[i].pc = "idle"
    /\ \E listener \in Listeners, id \in Ids, sc \in ConcurrentScenarios :
        conns' = [conns EXCEPT ![i] =
                     [pc |-> "handling", chan |-> listener,
                      req |-> RpcRequest(id, sc[1], sc[2]), env |-> sc[3],
                      done |-> <<>>, resp |-> NoResponse]]
    /\ ConcurrentFrame

\* The handler makes its next call on the store or the EVM.
ConnCall(i) ==
    /\ conns[i].pc = "handling"
    /\ Len(conns[i].done) < Len(ConnTrace(i))
    /\ conns' = [conns EXCEPT ![i].done =
                     Append(@, ConnTrace(i)[Len(@) + 1])]
    /\ ConcurrentFrame

\* Mutant of ConnRespond: the request is taken from a buffer the
\* connections share, which holds the request of the first connection
\* that is being handled.
ConnRespond_SharedBuffer(i) ==
    /\ conns[i].pc = "handling"
    /\ Len(conns[i].done) = Len(ConnTrace(i))
    /\ LET first == CHOOSE k \in Conns :
                        /\ conns[k].pc = "handling"
                        /\ \A j \in Conns : conns[j].pc = "handling" => k <= j
       IN  conns' = [conns EXCEPT
                        ![i].pc = "responded",
                        ![i].resp = HandleOn(conns[i].chan, conns[first].req,
                                             store, conns[i].env)]
    /\ ConcurrentFrame

\* The handler returns: handle_http_request or handle_authrpc_request
\* builds the response from its own body and its own clone of the store.
ConnRespond(i) ==
    /\ conns[i].pc = "handling"
    /\ Len(conns[i].done) = Len(ConnTrace(i))
    /\ conns' = [conns EXCEPT
                     ![i].pc = "responded",
                     ![i].resp = HandleOn(conns[i].chan, conns[i].req,
                                          store, conns[i].env)]
    /\ ConcurrentFrame

\* The response is sent, or the connection of a handler that panicked is
\* closed; the connection is free for another request.
ConnDeliver(i) ==
    /\ conns[i].pc = "responded"
    /\ conns' = [conns EXCEPT ![i] = IdleConn]
    /\ ConcurrentFrame

NextConcurrent ==
    \/ \E i \in Conns : ConnArrive(i)
    \/ \E i \in Conns : ConnCall(i)
    \/ \E i \in Conns : ConnRespond(i)
    \/ \E i \in Conns : ConnDeliver(i)

SpecConcurrent == InitConcurrent /\ [][NextConcurrent]_vars



\* ------------------------------------------------------------------------
\* What a request is, read off the request itself
\* ------------------------------------------------------------------------

Returned == enginePc = "done"

\* Some transaction of the payload does not decode.
PayloadUndecodable ==
    \E i \in DOMAIN engineReq.payload.transactions :
        ~engineReq.payload.transactions[i].decodes

\* The block's timestamp is after the activation boundary. A timestamp is
\* unsigned and the boundary is 0, so no timestamp is below the boundary:
\* the timestamps that have not passed it are those equal to it.
AfterActivation == engineReq.payload.timestamp > cancun_time

\* The declared hash is the hash recomputed from the decoded header.
DeclaredHashIsActual ==
    /\ engineBlock.decoded
    /\ engineReq.payload.block_hash = compute_block_hash(engineBlock.header)

RECURSIVE ConcatFirst(_, _)
\* The versioned hashes of the first k transactions, in inclusion order.
ConcatFirst(txs, k) ==
    IF k = 0 THEN <<>>
    ELSE ConcatFirst(txs, k - 1)
            \o (IF txs[k].blob THEN txs[k].blob_versioned_hashes ELSE <<>>)

IncludedBlobHashes ==
    ConcatFirst(engineReq.payload.transactions,
                Len(engineReq.payload.transactions))

ExpectedIsIncluded ==
    engineReq.expected_blob_versioned_hashes = IncludedBlobHashes

StageOrder == <<"decode", "fork", "hash", "blob", "accept">>

IsPrefix(s, t) == Len(s) <= Len(t) /\ \A i \in 1..Len(s) : s[i] = t[i]

\* ------------------------------------------------------------------------
\* C1
\* ------------------------------------------------------------------------

\* C1: a payload that decodes, is past the fork activation, declares the
\* hash recomputed from its header and whose blob transactions' versioned
\* hashes, concatenated in inclusion order, equal the expected list, returns
\* Ok(PayloadStatus{Valid, Some(that block hash), None}).
C1_ValidPayloadAccepted ==
    (/\ Returned
     /\ ~PayloadUndecodable
     /\ AfterActivation
     /\ DeclaredHashIsActual
     /\ ExpectedIsIncluded)
    => /\ engineRes.tag = "Ok"
       /\ engineRes.val.status = "Valid"
       /\ engineRes.val.latest_valid_hash = Some(engineReq.payload.block_hash)
       /\ engineRes.val.latest_valid_hash
             = Some(compute_block_hash(engineBlock.header))
       /\ engineRes.val.validation_error = None

\* A payload with two blob transactions passed every check.
C1_Witness ==
    /\ Returned
    /\ ~PayloadUndecodable /\ AfterActivation
    /\ DeclaredHashIsActual /\ ExpectedIsIncluded
    /\ Len(IncludedBlobHashes) = 2
    /\ Len(engineReq.payload.transactions) = 2
    /\ engineRes.tag = "Ok" /\ engineRes.val.status = "Valid"

\* ------------------------------------------------------------------------
\* C2
\* ------------------------------------------------------------------------

C3_BlobMismatchInvalid ==
    (/\ Returned
     /\ ~PayloadUndecodable /\ AfterActivation /\ DeclaredHashIsActual
     /\ ~ExpectedIsIncluded)
    => /\ engineRes.tag = "Ok"
       /\ engineRes.val.status = "Invalid"
       /\ engineRes.val.status # "Valid"
       /\ engineRes.val.latest_valid_hash = None

\* The expected list holds the included hashes in another order.
C3_Witness ==
    /\ Returned
    /\ ~PayloadUndecodable /\ AfterActivation /\ DeclaredHashIsActual
    /\ IncludedBlobHashes = <<2, 1>>
    /\ engineReq.expected_blob_versioned_hashes = <<1, 2>>
    /\ engineRes.tag = "Ok" /\ engineRes.val.status = "Invalid"

\* ------------------------------------------------------------------------
\* C4
\* ------------------------------------------------------------------------

C5_DecodeFailureInvalid ==
    (Returned /\ PayloadUndecodable)
    => /\ engineRes.tag = "Ok"
       /\ engineRes.val.status = "Invalid"
       /\ engineRes.val.latest_valid_hash = Some(ZeroHash)
       /\ engineRes.val.validation_error
             = Some(into_block(engineReq.payload,
                              engineReq.parent_beacon_block_root).err)

\* A payload whose second transaction does not decode returned.
C5_Witness ==
    /\ Returned
    /\ Len(engineReq.payload.transactions) = 2
    /\ engineReq.payload.transactions[1].decodes
    /\ ~engineReq.payload.transactions[2].decodes
    /\ engineRes.tag = "Ok"

\* ------------------------------------------------------------------------
\* C6
\* ------------------------------------------------------------------------

\* C6: the stages run in the order decode, fork, hash, blob, accept, each at
\* most once and none skipped; the outcome is that of the earliest failing
\* stage, and accept is reached only after the four checks passed.
C6_StagesInOrder ==
    /\ IsPrefix(engineLog, StageOrder)
    /\ Returned =>
        /\ PayloadUndecodable
            => /\ engineLog = <<"decode">>
               /\ engineRes.tag = "Ok"
               /\ engineRes.val.latest_valid_hash = Some(ZeroHash)
        /\ (~PayloadUndecodable /\ ~AfterActivation)
            => /\ engineLog = <<"decode", "fork">>
               /\ engineRes = Err("UnsuportedFork")
        /\ (~PayloadUndecodable /\ AfterActivation /\ ~DeclaredHashIsActual)
            => /\ engineLog = <<"decode", "fork", "hash">>
               /\ engineRes = Ok(InvalidBlockHashStatus)
        /\ (/\ ~PayloadUndecodable /\ AfterActivation /\ DeclaredHashIsActual
            /\ ~ExpectedIsIncluded)
            => /\ engineLog = <<"decode", "fork", "hash", "blob">>
               /\ engineRes = Ok(InvalidBlobHashesStatus)
        /\ (\E i \in DOMAIN engineLog : engineLog[i] = "accept")
            => /\ engineLog = StageOrder
               /\ ~PayloadUndecodable /\ AfterActivation
               /\ DeclaredHashIsActual /\ ExpectedIsIncluded
               /\ engineRes.tag = "Ok" /\ engineRes.val.status = "Valid"

\* A payload that would fail the fork, hash and blob checks returned.
C6_Witness ==
    /\ Returned
    /\ ~PayloadUndecodable /\ ~AfterActivation
    /\ engineReq.payload.block_hash # compute_block_hash(engineBlock.header)
    /\ ~ExpectedIsIncluded
    /\ engineRes.tag = "Err"

\* ------------------------------------------------------------------------
\* C7
\* ------------------------------------------------------------------------

\* C7: in every PayloadStatus returned, latest_valid_hash is present only
\* for Valid (the block's own hash) or for Invalid on a decode failure (the
\* zero hash) and absent for Invalid on a hash or blob-hash failure;
\* validation_error is absent exactly for Valid; the status is never Syncing.
C7_PayloadStatusShape ==
    (Returned /\ engineRes.tag = "Ok") =>
        LET s == engineRes.val
        IN  /\ s.status \in {"Valid", "Invalid"}
            /\ s.status = "Valid"
                => /\ s.latest_valid_hash = Some(engineReq.payload.block_hash)
                   /\ DeclaredHashIsActual
            /\ (s.status = "Invalid" /\ PayloadUndecodable)
                => s.latest_valid_hash = Some(ZeroHash)
            /\ (s.status = "Invalid" /\ ~PayloadUndecodable)
                => s.latest_valid_hash = None
            /\ s.validation_error = None <=> s.status = "Valid"

\* A payload rejected by the blob-hash check returned.
C7_Witness ==
    /\ Returned
    /\ ~PayloadUndecodable /\ AfterActivation /\ DeclaredHashIsActual
    /\ ~ExpectedIsIncluded
    /\ engineRes.tag = "Ok" /\ engineRes.val.latest_valid_hash = None

\* ------------------------------------------------------------------------
\* C8
\* ------------------------------------------------------------------------

\* C8: every request that parsed gets exactly one response on either
\* listener, a Success or an Error envelope with the request's id, and the
\* handler never faults; this includes a block identifier given as a tag and
\* an eth_createAccessList call without the block parameter.
C8_AlwaysOneResponse ==
    rpcPc = "responded"
    => /\ resp.envelope \in {"RpcSuccessResponse", "RpcErrorResponse"}
       /\ resp.id = req.id
       /\ resp.jsonrpc = "2.0"

\* ------------------------------------------------------------------------
\* C9
\* ------------------------------------------------------------------------

\* C9: on both listeners Ok(value) of the dispatched handler becomes a
\* Success envelope with that value, and an error kind of the dispatched
\* handler becomes an Error envelope of that same kind.
C9_ErrorKindPreserved ==
    rpcPc = "responded"
    => LET res == map_requests(req, store, env)
       IN  /\ res.tag = "Ok"
               => /\ resp.envelope = "RpcSuccessResponse"
                  /\ resp.result = res.val
           /\ res.tag = "Err"
               => /\ resp.envelope = "RpcErrorResponse"
                  /\ resp.error = RpcErrorMetadataFrom(res.err)

\* ------------------------------------------------------------------------
\* C10
\* ------------------------------------------------------------------------

\* The methods the interface implements.
ImplementedMethods ==
    { "engine_exchangeCapabilities", "engine_forkchoiceUpdatedV3",
      "engine_newPayloadV3", "eth_chainId", "eth_syncing",
      "eth_getBlockByNumber", "eth_getBlockByHash", "eth_getBalance",
      "eth_getCode", "eth_getStorageAt",
      "eth_getBlockTransactionCountByNumber",
      "eth_getTransactionByBlockNumberAndIndex",
      "eth_getTransactionByBlockHashAndIndex", "eth_getBlockReceipts",
      "eth_getTransactionByHash", "eth_getTransactionReceipt",
      "eth_createAccessList", "admin_nodeInfo" }

\* C10: a method name that is not an implemented method yields
\* MethodNotFound on the general and on the authenticated listener, whatever
\* its parameters, the store and the collaborators; it reaches no handler.
C10_UnknownMethodNotFound ==
    (rpcPc = "responded" /\ req.method \notin ImplementedMethods)
    => /\ resp.envelope = "RpcErrorResponse"
       /\ resp.error = RpcErrorMetadataFrom("MethodNotFound")
       /\ resp.id = req.id

\* An unknown method with well-shaped parameters was answered on the
\* authenticated listener.
C10_Witness ==
    /\ rpcPc = "responded"
    /\ chan = "authrpc"
    /\ req.method = "engine_newPayloadV2"
    /\ req.params = Some(<<JHexNum(1), JBool(TRUE)>>)
    /\ resp.envelope = "RpcErrorResponse"

\* ------------------------------------------------------------------------
\* C11
\* ------------------------------------------------------------------------

\* The methods that take parameters.
ParamMethods ==
    { "engine_exchangeCapabilities", "engine_newPayloadV3",
      "eth_getBlockByNumber", "eth_getBlockByHash", "eth_getBalance",
      "eth_getCode", "eth_getStorageAt",
      "eth_getBlockTransactionCountByNumber",
      "eth_getTransactionByBlockNumberAndIndex",
      "eth_getTransactionByBlockHashAndIndex", "eth_getBlockReceipts",
      "eth_getTransactionByHash", "eth_getTransactionReceipt",
      "eth_createAccessList" }

\* The expected shape of each parameter of a method, in order; the
\* parameters from position Required(method) + 1 on may be left out.
ShapesOf(method) ==
    IF method = "engine_exchangeCapabilities" THEN <<"stringlist">>
    ELSE IF method = "engine_newPayloadV3"
         THEN <<"payload", "hashlist", "hash">>
    ELSE IF method = "eth_getBlockByNumber" THEN <<"block", "bool">>
    ELSE IF method = "eth_getBlockByHash" THEN <<"hash", "bool">>
    ELSE IF method \in {"eth_getBalance", "eth_getCode"}
         THEN <<"account", "account">>
    ELSE IF method = "eth_getStorageAt" THEN <<"account", "account", "account">>
    ELSE IF method \in {"eth_getBlockTransactionCountByNumber",
                        "eth_getBlockReceipts"} THEN <<"block">>
    ELSE IF method = "eth_getTransactionByBlockNumberAndIndex"
         THEN <<"block", "index">>
    ELSE IF method = "eth_getTransactionByBlockHashAndIndex"
         THEN <<"hash", "index">>
    ELSE IF method \in {"eth_getTransactionByHash",
                        "eth_getTransactionReceipt"} THEN <<"hash">>
    ELSE IF method = "eth_createAccessList" THEN <<"transaction", "block">>
    ELSE <<>>

Required(method) ==
    IF method = "eth_createAccessList" THEN 1 ELSE Len(ShapesOf(method))

\* The value v decodes to the shape.
HasShape(v, shape) ==
    IF shape = "block"
    THEN v.ty = "hexnum" \/ (v.ty = "string" /\ v.s \in BlockTags)
    ELSE IF shape = "index" THEN v.ty = "number" /\ v.n >= 0
    ELSE IF shape = "account" THEN v.ty = "accountparam" /\ v.good
    ELSE v.ty = shape

\* The parameter list is absent, of the wrong length, or holds a parameter
\* that does not decode to its shape.
Malformed(method, params) ==
    \/ ~params.some
    \/ Len(params.val) < Required(method)
    \/ Len(params.val) > Len(ShapesOf(method))
    \/ \E i \in 1..Len(params.val) :
           i <= Len(ShapesOf(method))
           /\ ~HasShape(params.val[i], ShapesOf(method)[i])

\* C11: a request for a method that takes parameters whose parameter list
\* is absent, of a length other than the method's arity, or holds a
\* parameter that does not decode, gets BadParams from map_requests, and
\* no handler is entered and no storage read or EVM call is made for it.
C11_MalformedIsBadParams ==
    (/\ rpcPc = "responded"
     /\ req.method \in ParamMethods
     /\ Malformed(req.method, req.params))
    => /\ map_requests(req, store, env) = Err("BadParams")
       /\ calls = <<>>

\* ------------------------------------------------------------------------
\* C12
\* ------------------------------------------------------------------------

\* The query methods.
QueryMethods ==
    { "eth_getBlockByNumber", "eth_getBlockByHash",
      "eth_getBlockTransactionCountByNumber",
      "eth_getTransactionByBlockNumberAndIndex",
      "eth_getTransactionByBlockHashAndIndex", "eth_getBlockReceipts",
      "eth_getTransactionByHash", "eth_getTransactionReceipt",
      "eth_createAccessList" }

\* The name under which env.failing lists a storage read.
FailingNameOf(op) ==
    IF op = "get_block_header" THEN "header"
    ELSE IF op = "get_block_body" THEN "body"
    ELSE IF op = "get_block_number" THEN "number"
    ELSE IF op = "get_receipt" THEN "receipt"
    ELSE "location"

\* The storage reads among the calls made for the request that returned a
\* storage error.
FailedReads ==
    {i \in DOMAIN calls :
        calls[i].op \in StorageOps /\ FailingNameOf(calls[i].op) \in env.failing}

\* Block n lacks its header, its body, or transaction i in its body.
NoHeader(n) == n \notin DOMAIN store.headers

NoBody(n) == n \notin DOMAIN store.bodies

NoTransaction(n, i) ==
    NoBody(n) \/ i >= Len(store.bodies[n].transactions)

NoReceipt(n, i) == <<n, i>> \notin store.receipts

NoNumber(h) == h \notin DOMAIN store.block_numbers

NoLocation(h) == h \notin DOMAIN store.transaction_locations

\* The request is a well-formed query by number or by hash (not by tag),
\* and the store lacks an item the query needs.
ItemNotFound ==
    /\ req.method \in QueryMethods
    /\ ~Malformed(req.method, req.params)
    /\ LET m == req.method
           p == req.params.val
       IN  IF m = "eth_getBlockByNumber"
           THEN p[1].ty = "hexnum" /\ (NoHeader(p[1].n) \/ NoBody(p[1].n))
           ELSE IF m = "eth_getBlockByHash"
           THEN \/ NoNumber(p[1].h)
                \/ NoHeader(store.block_numbers[p[1].h])
                \/ NoBody(store.block_numbers[p[1].h])
           ELSE IF m = "eth_getBlockTransactionCountByNumber"
           THEN p[1].ty = "hexnum" /\ NoBody(p[1].n)
           ELSE IF m = "eth_getTransactionByBlockNumberAndIndex"
           THEN p[1].ty = "hexnum" /\ NoTransaction(p[1].n, p[2].n)
           ELSE IF m = "eth_getTransactionByBlockHashAndIndex"
           THEN \/ NoNumber(p[1].h)
                \/ NoTransaction(store.block_numbers[p[1].h], p[2].n)
           ELSE IF m = "eth_getBlockReceipts"
           THEN /\ p[1].ty = "hexnum"
                /\ \/ NoHeader(p[1].n)
                   \/ NoBody(p[1].n)
                   \/ \E i \in 0..(Len(store.bodies[p[1].n].transactions) - 1) :
                          NoReceipt(p[1].n, i)
           ELSE IF m = "eth_getTransactionByHash"
           THEN \/ NoLocation(p[1].h)
                \/ NoTransaction(store.transaction_locations[p[1].h][1],
                                 store.transaction_locations[p[1].h][2])
           ELSE IF m = "eth_getTransactionReceipt"
           THEN \/ NoLocation(p[1].h)
                \/ LET n == store.transaction_locations[p[1].h][1]
                       i == store.transaction_locations[p[1].h][2]
                   IN  NoHeader(n) \/ NoTransaction(n, i) \/ NoReceipt(n, i)
           ELSE \* eth_createAccessList
                /\ Len(p) = 2
                /\ p[2].ty = "hexnum"
                /\ NoHeader(p[2].n)

\* C12: when a query handler misses an item it needs (hash-to-number
\* mapping, header, body, transaction, location, receipt, or an index past
\* the body) and every storage read it made succeeded, it returns Ok(null),
\* answered as a Success envelope carrying null, never an error kind.
C12_NotFoundIsNull ==
    (rpcPc = "responded" /\ ItemNotFound /\ FailedReads = {})
    => /\ map_requests(req, store, env) = Ok(JNull)
       /\ resp.envelope = "RpcSuccessResponse"
       /\ resp.result = JNull
       /\ resp.id = req.id

\* eth_getBlockByNumber for a number with no stored header was answered
\* with a Success envelope whose result is null.
C12_Witness ==
    /\ rpcPc = "responded"
    /\ req.method = "eth_getBlockByNumber"
    /\ req.params = Some(<<JHexNum(2), JBool(FALSE)>>)
    /\ NoHeader(2)
    /\ FailedReads = {}
    /\ resp.envelope = "RpcSuccessResponse"
    /\ resp.result = JNull

\* ------------------------------------------------------------------------
\* C13
\* ------------------------------------------------------------------------

\* The first storage read of the request that returned a storage error.
FirstFailedRead == CHOOSE i \in FailedReads : \A j \in FailedReads : i <= j

\* C13: when a storage read made by a query handler returns a storage
\* error the handler returns Internal, not null and not a value, and the
\* general listener answers with the Internal error envelope. No read is
\* made twice, and the only read made after the failed one is the body
\* read that get_block_by_number, get_block_by_hash and get_block_receipts
\* issue together with a header read. An error on the header or on the
\* body read wins over a not-found of the other.
C13_StorageErrorIsInternal ==
    (rpcPc = "responded" /\ req.method \in QueryMethods /\ FailedReads # {})
    => /\ map_requests(req, store, env) = Err("Internal")
       /\ chan = "http"
           => /\ resp.envelope = "RpcErrorResponse"
              /\ resp.error = RpcErrorMetadataFrom("Internal")
       /\ \A i, j \in DOMAIN calls : i # j => calls[i] # calls[j]
       /\ \A j \in DOMAIN calls :
              j > FirstFailedRead
              => /\ j = FirstFailedRead + 1
                 /\ calls[FirstFailedRead].op = "get_block_header"
                 /\ calls[j] = ReadBody(calls[FirstFailedRead].number)
                 /\ req.method \in {"eth_getBlockByNumber",
                                    "eth_getBlockByHash",
                                    "eth_getBlockReceipts"}

\* eth_getBlockByNumber was answered Internal for a block whose header read
\* failed while its body is not stored.
C13_Witness ==
    /\ rpcPc = "responded"
    /\ chan = "http"
    /\ req.method = "eth_getBlockByNumber"
    /\ req.params = Some(<<JHexNum(1), JBool(TRUE)>>)
    /\ env.failing = {"header"}
    /\ NoBody(1)
    /\ calls = <<Enter("get_block_by_number"), ReadHeader(1), ReadBody(1)>>
    /\ resp.envelope = "RpcErrorResponse"
    /\ resp.error = RpcErrorMetadataFrom("Internal")

\* ------------------------------------------------------------------------
\* C14
\* ------------------------------------------------------------------------

\* The methods that take a block identifier.
ByIdentifierMethods ==
    { "eth_getBlockByNumber", "eth_getBlockTransactionCountByNumber",
      "eth_getTransactionByBlockNumberAndIndex", "eth_getBlockReceipts",
      "eth_createAccessList" }

\* The block identifier parameter of the request as it was sent;
\* eth_createAccessList takes it second and may leave it out.
IdentifierParam ==
    IF req.method = "eth_createAccessList"
    THEN IF Len(req.params.val) = 2 THEN Some(req.params.val[2]) ELSE None
    ELSE Some(req.params.val[1])

\* The request is well formed and identifies its block by a number.
ByNumber ==
    /\ req.method \in ByIdentifierMethods
    /\ ~Malformed(req.method, req.params)
    /\ IdentifierParam.some
    /\ IdentifierParam.val.ty = "hexnum"

RequestedNumber == IdentifierParam.val.n

\* The storage reads among the calls made for the request.
StorageReads == {i \in DOMAIN calls : calls[i].op \in StorageOps}

\* C14: a handler given BlockIdentifier::Number(n) reads storage at block
\* number n and at no other number: every read it makes is a header, body
\* or receipt read keyed by n, it makes at least one, and with no storage
\* error the block and the transaction count it returns are those stored
\* at n.
C14_NumberIsIdentity ==
    (rpcPc = "responded" /\ ByNumber)
    => LET n == RequestedNumber
           res == map_requests(req, store, env)
       IN  /\ StorageReads # {}
           /\ \A i \in StorageReads :
                  /\ calls[i].op \in {"get_block_header", "get_block_body",
                                      "get_receipt"}
                  /\ calls[i].number = n
           /\ (req.method = "eth_getBlockByNumber" /\ env.failing = {})
               => res = IF NoHeader(n) \/ NoBody(n) THEN Ok(JNull)
                        ELSE Ok(BlockSerializable_from_block(
                                 store.headers[n], store.bodies[n],
                                 req.params.val[2].b))
           /\ (req.method = "eth_getBlockTransactionCountByNumber"
               /\ env.failing = {})
               => res = IF NoBody(n) THEN Ok(JNull)
                        ELSE Ok(JHexString(FormatHex(
                                 Len(store.bodies[n].transactions))))

\* The transaction count of block 1 was asked for in a store that also
\* holds block 0, whose body has another length.
C14_Witness ==
    /\ rpcPc = "responded"
    /\ req.method = "eth_getBlockTransactionCountByNumber"
    /\ req.params = Some(<<JHexNum(1)>>)
    /\ ~NoBody(0)
    /\ ~NoBody(1)
    /\ Len(store.bodies[0].transactions) # Len(store.bodies[1].transactions)
    /\ calls = <<Enter("get_block_transaction_count_by_number"), ReadBody(1)>>
    /\ map_requests(req, store, env) = Ok(JHexString(<<"0", "x", "1">>))

\* ------------------------------------------------------------------------
\* C15
\* ------------------------------------------------------------------------

\* The request is well formed and its block identifier is a tag, sent as
\* one of the five tags or, for eth_createAccessList, left out.
ByTag ==
    /\ req.method \in ByIdentifierMethods
    /\ ~Malformed(req.method, req.params)
    /\ IdentifierParam.some => IdentifierParam.val.ty = "string"

\* C15: for a block identifier of the Tag variant no handler puts a block
\* number in its place: it makes no storage read and no EVM call, and it
\* returns no value, no null and no error kind; the handler fails at the
\* identifier and the listener produces no envelope.
C15_TagFailsLoudly ==
    (rpcPc = "responded" /\ ByTag)
    => /\ StorageReads = {}
       /\ \A i \in DOMAIN calls : calls[i].op = "enter"
       /\ map_requests(req, store, env) = Panic
       /\ resp = Fault

\* eth_getBlockByNumber for "latest" failed in a store that holds block 0.
C15_Witness ==
    /\ rpcPc = "responded"
    /\ req.method = "eth_getBlockByNumber"
    /\ req.params = Some(<<JString("latest"), JBool(TRUE)>>)
    /\ ~NoHeader(0)
    /\ ~NoBody(0)
    /\ calls = <<Enter("get_block_by_number")>>
    /\ resp = Fault

\* ------------------------------------------------------------------------
\* C16
\* ------------------------------------------------------------------------

RECURSIVE HexValueOf(_)
\* The number that a sequence of hexadecimal digits writes.
HexValueOf(digits) ==
    IF digits = <<>> THEN 0
    ELSE LET last == digits[Len(digits)]
             d == CHOOSE i \in 0..15 : HexDigits[i + 1] = last
         IN  16 * HexValueOf(SubSeq(digits, 1, Len(digits) - 1)) + d

\* The number read back from a "0x.." wire string.
HexValue(wire) == HexValueOf(SubSeq(wire, 3, Len(wire)))

\* eth_createAccessList by number reached the EVM: the target header was
\* found.
AccessListHeaderFound ==
    /\ req.method = "eth_createAccessList"
    /\ ByNumber
    /\ "header" \notin env.failing
    /\ ~NoHeader(RequestedNumber)

\* C16: once the target header is found, create_access_list turns the
\* EVM's outcome into {accessList, gasUsed, error?}: Success leaves error
\* absent, Revert sets it to "Transaction Reverted", Halt sets it to the
\* halt reason; all three report the EVM's access list and gas_used
\* unchanged; an execution fault gives the Vm error kind and no result.
C16_AccessListOutcome ==
    (rpcPc = "responded" /\ AccessListHeaderFound)
    => LET res == map_requests(req, store, env)
           evm == env.evm
       IN  /\ calls[Len(calls)] = EvmCall
           /\ evm.kind \in {"Success", "Revert", "Halt"}
               => /\ res.tag = "Ok"
                  /\ res.val.ty = "accesslistresult"
                  /\ res.val.access_list = evm.access_list
                  /\ res.val.gas_used[1] = "0" /\ res.val.gas_used[2] = "x"
                  /\ HexValue(res.val.gas_used) = evm.gas_used
                  /\ res.val.error =
                        IF evm.kind = "Success" THEN None
                        ELSE IF evm.kind = "Revert"
                        THEN Some("Transaction Reverted")
                        ELSE Some(evm.reason)
           /\ evm.kind = "Fault"
               => /\ res = Err("Vm")
                  /\ chan = "http"
                      => /\ resp.envelope = "RpcErrorResponse"
                         /\ resp.error = RpcErrorMetadataFrom("Vm")

\* A reverted execution with a non-empty access list was reported.
C16_Witness ==
    /\ rpcPc = "responded"
    /\ AccessListHeaderFound
    /\ env.evm.kind = "Revert"
    /\ env.evm.access_list # <<>>
    /\ resp.envelope = "RpcSuccessResponse"
    /\ resp.result.error = Some("Transaction Reverted")
    /\ HexValue(resp.result.gas_used) = 30000

\* ------------------------------------------------------------------------
\* C17
\* ------------------------------------------------------------------------

\* The entry of a complete receipt list for transaction i (from 0) of
\* block n as the store holds it.
StoredReceiptEntry(n, i) ==
    ReceiptWithTxAndBlockInfo(
        [block_number |-> n, index |-> i],
        [transaction_hash |-> store.bodies[n].transactions[i + 1].hash,
         transaction_index |-> i,
         nonce |-> store.bodies[n].transactions[i + 1].nonce],
        [block_number |-> store.headers[n].number,
         block_hash |-> store.headers[n].hash])

\* C17: in every interleaving with a writer that stores the block's
\* receipts one by one, get_block_receipts by number returns null, the
\* Internal error, or a list with exactly one entry per transaction of the
\* block, entry i pairing the stored receipt (n, i) with transaction i's
\* and the block's context; never a shorter list. With no storage error,
\* a header, body or receipt still missing when it returns makes the
\* result null.
C17_NoPartialReceipts ==
    (rcPc = "done" /\ resp # Fault)
    => LET n == RcBlockNumber
       IN  /\ \/ /\ resp.envelope = "RpcErrorResponse"
                 /\ resp.error = RpcErrorMetadataFrom("Internal")
                 /\ env.failing # {}
              \/ /\ resp.envelope = "RpcSuccessResponse"
                 /\ resp.result = JNull
              \/ /\ resp.envelope = "RpcSuccessResponse"
                 /\ resp.result.ty = "receipts"
                 /\ ~NoHeader(n)
                 /\ ~NoBody(n)
                 /\ Len(resp.result.receipts)
                        = Len(store.bodies[n].transactions)
                 /\ \A i \in 0..(Len(store.bodies[n].transactions) - 1) :
                        /\ ~NoReceipt(n, i)
                        /\ resp.result.receipts[i + 1]
                               = StoredReceiptEntry(n, i)
           /\ (/\ env.failing = {}
               /\ \/ NoHeader(n)
                  \/ NoBody(n)
                  \/ \E i \in 0..(Len(store.bodies[n].transactions) - 1) :
                         NoReceipt(n, i))
               => resp.result = JNull

\* The handler returned the complete list of a block of two transactions.
C17_Witness ==
    /\ rcPc = "done"
    /\ resp.envelope = "RpcSuccessResponse"
    /\ resp.result.ty = "receipts"
    /\ Len(resp.result.receipts) = 2
    /\ Len(store.bodies[1].transactions) = 2
    /\ resp.result.receipts[2] = StoredReceiptEntry(1, 1)

\* ------------------------------------------------------------------------
\* C18
\* ------------------------------------------------------------------------

\* eth_getTransactionReceipt was asked, with no storage error, for a hash
\* whose location is stored.
ReceiptOfLocatedTransaction ==
    /\ req.method = "eth_getTransactionReceipt"
    /\ ~Malformed(req.method, req.params)
    /\ env.failing = {}
    /\ ~NoLocation(req.params.val[1].h)

\* What get_block_receipts returns for the block of that location.
ReceiptsOfLocatedBlock ==
    get_block_receipts(
        [block |-> Number(store.transaction_locations[req.params.val[1].h][1])],
        store, env)

\* C18: for a transaction hash whose stored location is (n, i), whenever
\* get_block_receipts(Number(n)) returns a list L, get_transaction_receipt
\* returns exactly L[i], and null when i is not an index of the block's
\* transactions.
C18_ReceiptIsListItem ==
    (rpcPc = "responded" /\ ReceiptOfLocatedTransaction)
    => LET i == store.transaction_locations[req.params.val[1].h][2]
           list == ReceiptsOfLocatedBlock
       IN  (list.tag = "Ok" /\ list.val.ty = "receipts")
           => map_requests(req, store, env)
                  = IF i < Len(list.val.receipts)
                    THEN Ok(JReceipt(list.val.receipts[i + 1]))
                    ELSE Ok(JNull)

\* The receipt of the second transaction of a block was returned, the
\* block's receipt list holding two entries.
C18_Witness ==
    /\ rpcPc = "responded"
    /\ ReceiptOfLocatedTransaction
    /\ store.transaction_locations[req.params.val[1].h] = <<1, 1>>
    /\ ReceiptsOfLocatedBlock.tag = "Ok"
    /\ ReceiptsOfLocatedBlock.val.ty = "receipts"
    /\ Len(ReceiptsOfLocatedBlock.val.receipts) = 2
    /\ resp.envelope = "RpcSuccessResponse"
    /\ resp.result = JReceipt(ReceiptsOfLocatedBlock.val.receipts[2])

\* ------------------------------------------------------------------------
\* C19
\* ------------------------------------------------------------------------

\* The request is a well-formed transaction-by-block-and-index query, by
\* number or by a hash whose number is stored.
ByBlockAndIndex ==
    /\ req.method \in {"eth_getTransactionByBlockNumberAndIndex",
                       "eth_getTransactionByBlockHashAndIndex"}
    /\ ~Malformed(req.method, req.params)
    /\ IF req.method = "eth_getTransactionByBlockNumberAndIndex"
       THEN req.params.val[1].ty = "hexnum"
       ELSE ~NoNumber(req.params.val[1].h)

\* The number of the block the query is about.
IndexedBlock ==
    IF req.method = "eth_getTransactionByBlockNumberAndIndex"
    THEN req.params.val[1].n
    ELSE store.block_numbers[req.params.val[1].h]

\* C19: when the body of the block is found with transaction list T, the
\* two transaction-by-block-and-index handlers return T[index] if
\* index < |T| and null if index >= |T|; they return no other transaction
\* and do not fault.
C19_IndexIsBoundsChecked ==
    (/\ rpcPc = "responded"
     /\ ByBlockAndIndex
     /\ env.failing = {}
     /\ ~NoBody(IndexedBlock))
    => LET T == store.bodies[IndexedBlock].transactions
           index == req.params.val[2].n
       IN  /\ resp.envelope = "RpcSuccessResponse"
           /\ resp.result = IF index < Len(T)
                            THEN JTransactionView(T[index + 1])
                            ELSE JNull

\* The last transaction of a body of two was returned for index 1, by
\* block hash.
C19_Witness ==
    /\ rpcPc = "responded"
    /\ req.method = "eth_getTransactionByBlockHashAndIndex"
    /\ ByBlockAndIndex
    /\ env.failing = {}
    /\ ~NoBody(IndexedBlock)
    /\ Len(store.bodies[IndexedBlock].transactions) = 2
    /\ req.params.val[2] = JNumber(1)
    /\ resp.result = JTransactionView(TxB)

\* ------------------------------------------------------------------------
\* C20
\* ------------------------------------------------------------------------

Converted == txOut # NotConverted

\* The variant the type tag of the wire transaction stands for, "none" for
\* a tag that stands for no variant.
VariantOfTag ==
    LET t == txIn.transaction_type
    IN  IF ~t.some THEN "LegacyTransaction"
        ELSE IF t.val = 0 THEN "LegacyTransaction"
        ELSE IF t.val = 1 THEN "EIP2930Transaction"
        ELSE IF t.val = 2 THEN "EIP1559Transaction"
        ELSE IF t.val = 3 THEN "EIP4844Transaction"
        ELSE "none"

\* The fields of the wire transaction can be carried over: its numbers fit
\* a u64 and a blob transaction states its max_fee_per_blob_gas.
FieldsConvert ==
    /\ txIn.nonce <= U64Max
    /\ txIn.gas_limit <= U64Max
    /\ \A f \in {txIn.gas_price, txIn.chain_id, txIn.max_fee_per_gas,
                 txIn.max_priority_fee_per_gas} :
           f.some => f.val <= U64Max
    /\ VariantOfTag = "EIP4844Transaction" => txIn.max_fee_per_blob_gas.some

\* C20: the conversion picks the variant from the type tag alone: absent
\* or 0 gives legacy, 1 access-list, 2 dynamic-fee, 3 blob, and a
\* transaction whose fields can be carried over is converted to that
\* variant; any other tag is fatal: the conversion returns no transaction,
\* of the legacy or of any other variant.
C20_VariantFromTypeTag ==
    Converted
    => /\ VariantOfTag = "none" => txOut = Panic
       /\ txOut # Panic => txOut.variant = VariantOfTag
       /\ (VariantOfTag # "none" /\ FieldsConvert) => txOut # Panic

\* A transaction of type 4 whose fields could all be carried over was
\* handed to the conversion, which returned nothing.
C20_Witness ==
    /\ Converted
    /\ txIn.transaction_type = Some(4)
    /\ txIn.nonce = 0
    /\ txOut = Panic

\* ------------------------------------------------------------------------
\* C21
\* ------------------------------------------------------------------------

\* The conversion returned a transaction.
ConvertedOk == Converted /\ txOut # Panic

\* C21 as stated: a wire transaction whose `to` is the all-zero address
\* converts to a contract creation whatever its kind, the blob kind
\* included.
C21_ZeroToIsCreateAnyKind ==
    (ConvertedOk /\ txIn.to = ZeroAddress)
    => txOut.tx.to = [kind |-> "Create"]

\* C21: a wire transaction whose `to` is the all-zero address converts to
\* a contract creation, not to a call of the zero address, when its kind is
\* legacy, access-list or dynamic-fee; any other `to` converts to a call of
\* that address. A blob transaction has no creation form: its `to` is
\* carried over as an address, the zero address too.
C21_ZeroToIsCreate ==
    ConvertedOk
    => IF txOut.variant = "EIP4844Transaction"
       THEN txOut.tx.to = [kind |-> "Address", to |-> txIn.to]
       ELSE txOut.tx.to = IF txIn.to = ZeroAddress
                          THEN [kind |-> "Create"]
                          ELSE [kind |-> "Call", to |-> txIn.to]

\* A dynamic-fee transaction to the zero address was converted to a
\* contract creation.
C21_Witness ==
    /\ ConvertedOk
    /\ txIn.to = ZeroAddress
    /\ txOut.variant = "EIP1559Transaction"
    /\ txOut.tx.to = [kind |-> "Create"]

\* ------------------------------------------------------------------------
\* C22
\* ------------------------------------------------------------------------

C23_ParityAndChainId ==
    ConvertedOk
    => IF txOut.variant = "LegacyTransaction"
       THEN txOut.tx.v = txIn.v
       ELSE /\ txOut.tx.signature_y_parity = (txIn.v # 0)
            /\ txOut.tx.chain_id =
                   IF txIn.chain_id.some THEN txIn.chain_id.val ELSE 1

\* A type 1 transaction with v = 27 and no chain_id was converted to an
\* access-list transaction with signature_y_parity true and chain_id 1.
C23_Witness ==
    /\ ConvertedOk
    /\ txOut.variant = "EIP2930Transaction"
    /\ txIn.v = 27
    /\ txIn.chain_id = None
    /\ txOut.tx.signature_y_parity
    /\ txOut.tx.chain_id = 1

\* ------------------------------------------------------------------------
\* C24
\* ------------------------------------------------------------------------

C25_ListenersIndependent ==
    \A l \in Listeners : server[l] = "dropped" => inflight[l] = 0

\* C25, second half: once the interrupt is delivered, both listeners
\* eventually stop serving.
C25_BothEventuallyStop ==
    ctrl_c ~> (\A l \in Listeners : ~Running(l))

\* ------------------------------------------------------------------------
\* C26
\* ------------------------------------------------------------------------

\* C26: engine_forkchoiceUpdatedV3 always answers with a Success envelope
\* whose result has payloadStatus.status = "SYNCING", latestValidHash =
\* null, validationError = null and payloadId = null, whatever the
\* request's parameters, the store and the listener.
C26_ForkchoiceIsSyncing ==
    (rpcPc = "responded" /\ req.method = "engine_forkchoiceUpdatedV3")
    => /\ resp.envelope = "RpcSuccessResponse"
       /\ resp.id = req.id
       /\ resp.result.payloadId = JNull
       /\ resp.result.payloadStatus.status = "SYNCING"
       /\ resp.result.payloadStatus.latestValidHash = JNull
       /\ resp.result.payloadStatus.validationError = JNull

\* engine_forkchoiceUpdatedV3 was answered on the general listener, with
\* parameters, on a store that holds a block whose reads fail.
C26_Witness ==
    /\ rpcPc = "responded"
    /\ chan = "http"
    /\ req.method = "engine_forkchoiceUpdatedV3"
    /\ req.params.some
    /\ store.headers # EmptyMap
    /\ env.failing # {}
    /\ resp.envelope = "RpcSuccessResponse"

\* ------------------------------------------------------------------------
\* C27
\* ------------------------------------------------------------------------

\* C27: new_payload_v3 returns UnsupportedFork only when the timestamp of
\* the decoded block is strictly before the activation boundary: a payload
\* whose timestamp equals the boundary is not rejected as UnsupportedFork
\* and goes on to the hash check.
C27_UnsupportedOnlyBeforeBoundary ==
    Returned
    => /\ engineRes = Err("UnsuportedFork")
          => engineReq.payload.timestamp < cancun_time
       /\ (~PayloadUndecodable /\ engineReq.payload.timestamp = cancun_time)
          => \E i \in 1..Len(engineLog) : engineLog[i] = "hash"

\* ------------------------------------------------------------------------
\* C28
\* ------------------------------------------------------------------------

\* The block identifier a well-shaped block parameter stands for.
BlockOfParam(v) == IF v.ty = "hexnum" THEN Number(v.n) ELSE Tag(v.s)

\* C28: eth_createAccessList takes one or two parameters. No parameter,
\* more than two, a transaction that does not decode or a block that is
\* given and does not decode give BadParams and the handler is not
\* entered; otherwise create_access_list runs, on the given block or, when
\* the block is left out, on the default identifier Tag(Latest).
C28_AccessListParams ==
    (rpcPc = "responded" /\ req.method = "eth_createAccessList")
    => LET res == map_requests(req, store, env)
           p == req.params
       IN  IF Malformed("eth_createAccessList", p)
           THEN /\ res = Err("BadParams")
                /\ calls = <<>>
           ELSE /\ calls # <<>>
                /\ calls[1] = Enter("create_access_list")
                /\ res = create_access_list(
                      [transaction |-> p.val[1].tx,
                       block |-> Some(IF Len(p.val) = 2
                                      THEN BlockOfParam(p.val[2])
                                      ELSE Tag("latest"))],
                      store, env)

\* A request with a transaction and no block was accepted: the handler was
\* entered.
C28_Witness ==
    /\ rpcPc = "responded"
    /\ req.method = "eth_createAccessList"
    /\ req.params.some
    /\ Len(req.params.val) = 1
    /\ calls = <<Enter("create_access_list")>>

\* ------------------------------------------------------------------------
\* C29
\* ------------------------------------------------------------------------

\* C29: a type 3 wire transaction without max_fee_per_blob_gas is never
\* converted to a transaction: the conversion fails, and no blob
\* transaction with a made-up max_fee_per_blob_gas comes out of it.
C29_NoBlobFeeNoTransaction ==
    (/\ Converted
     /\ txIn.transaction_type = Some(3)
     /\ txIn.max_fee_per_blob_gas = None)
    => txOut = Panic

\* A type 3 wire transaction whose other fields all convert, and which has
\* no max_fee_per_blob_gas, was handed to the conversion.
C29_Witness ==
    /\ Converted
    /\ txIn.transaction_type = Some(3)
    /\ txIn.max_fee_per_blob_gas = None
    /\ FitsU64(txIn.nonce)
    /\ txOut = Panic

\* ------------------------------------------------------------------------
\* C30
\* ------------------------------------------------------------------------

\* The by-hash methods and the by-number method each stands beside.
ByHashMethods ==
    {"eth_getBlockByHash", "eth_getTransactionByBlockHashAndIndex"}

ByNumberMethodOf(method) ==
    IF method = "eth_getBlockByHash" THEN "eth_getBlockByNumber"
    ELSE "eth_getTransactionByBlockNumberAndIndex"

\* C30: when the hash of a by-hash request resolves to the number n, the
\* request gets what the by-number request for Number(n), with the same
\* hydration flag or index, gets from the same store and collaborators:
\* the same value, the same null, the same Internal error.
C30_HashAgreesWithNumber ==
    (/\ rpcPc = "responded"
     /\ req.method \in ByHashMethods
     /\ ~Malformed(req.method, req.params))
    => LET number == get_block_number(store, env, req.params.val[1].h)
       IN  (number.tag = "Ok" /\ number.val.some)
           => LET byNumber ==
                      RpcRequest(req.id, ByNumberMethodOf(req.method),
                                 Some(<<JHexNum(number.val.val),
                                        req.params.val[2]>>))
              IN  /\ map_requests(req, store, env)
                         = map_requests(byNumber, store, env)
                  /\ resp = IF chan = "http"
                            THEN handle_http_request(byNumber, store, env)
                            ELSE handle_authrpc_request(byNumber, store, env)

\* A block asked for by its hash was found and returned.
C30_Witness ==
    /\ rpcPc = "responded"
    /\ req.method = "eth_getBlockByHash"
    /\ ~Malformed(req.method, req.params)
    /\ get_block_number(store, env, req.params.val[1].h) = Ok(Some(1))
    /\ resp.envelope = "RpcSuccessResponse"
    /\ resp.result # JNull

\* ------------------------------------------------------------------------
\* C31
\* ------------------------------------------------------------------------

C32_AuthrpcServesHttp ==
    rpcPc = "responded"
    => LET first == map_requests(req, store, env)
           consulted == handle_authrpc_request_calls(req, store, env)
       IN  /\ first.tag = "Ok"
              => /\ handle_authrpc_request(req, store, env)
                        = handle_http_request(req, store, env)
                 /\ handle_authrpc_request(req, store, env)
                        = [envelope |-> "RpcSuccessResponse", id |-> req.id,
                           jsonrpc |-> "2.0", result |-> first.val]
                 /\ chan = "authrpc"
                        => resp = handle_http_request(req, store, env)
                 /\ consulted = <<"map_requests">>
           /\ (\E k \in 1..Len(consulted) :
                   consulted[k] = "map_internal_requests")
              => /\ first.tag = "Err"
                 /\ consulted = <<"map_requests", "map_internal_requests">>

\* A block asked for by its number on the authenticated listener was found
\* and returned.
C32_Witness ==
    /\ rpcPc = "responded"
    /\ chan = "authrpc"
    /\ req.method = "eth_getBlockByNumber"
    /\ map_requests(req, store, env).tag = "Ok"
    /\ resp.envelope = "RpcSuccessResponse"
    /\ resp.result # JNull

====
